---- MODULE Spec2Model ----
(***************************************************************************)
(* Threat aggregation and criticality scoring of strider:                  *)
(* services/threat_model_compiler.py (ThreatModelCompiler) fed by the      *)
(* agents of services/agents/agent.py (SecurityAgent).                     *)
(*                                                                         *)
(* Python values are tagged records (PyVal); a Python float is an integer  *)
(* number of hundredths (8.0 is 800), a weight or factor an integer number *)
(* of tenths (1.5 is 15).  A call that raises is the record Raise(e), a    *)
(* call that returns v is Ok(v).                                           *)
(***************************************************************************)
EXTENDS Integers, Sequences, FiniteSets, TLC

\* Most (name, analysis) entries collected in one run.
MaxAgents == 2
\* Most raw threat records, over all entries, of one run.
MaxThreats == 3
\* Most raw threat records in one LLM reply.
MaxBatch == 2
\* Most threats in the list of one call of _deduplicate_threats.
MaxMerged == 3
\* Most threat records in the report of one source handed to compile_threat_model.
MaxReported == 6

VARIABLES
    hash_seed,          \* the hash seed of the Python process
    arch_analysis,      \* st.session_state['architecture_analysis']
    all_solutions,      \* the (agent_name, analysis) entries collected so far
    raw_batches,        \* for each entry, the threat records its source reported
    phase,              \* "collect", "compiled" or "recompiled"
    component_threats,  \* the list _extract_component_threats returned last
    result,             \* what compile_threat_model returned last
    prev_result,        \* what the call before it returned, same arguments
    agent_threats,      \* the list of threats a function of the agent is called on
    agent_result,       \* what that function returned or raised
    queried,            \* the calls of get_solution so far: the agent, and whether its LLM query failed
    compile_calls       \* the calls of compile_threat_model in this run

vars == <<hash_seed, arch_analysis, all_solutions, raw_batches, phase,
          component_threats, result, prev_result, agent_threats, agent_result,
          queried, compile_calls>>

----------------------------------------------------------------------------
(* Python values *)

Absent == [t |-> "absent", s |-> "", n |-> 0, l |-> <<>>]
None == [t |-> "none", s |-> "", n |-> 0, l |-> <<>>]
\* a str whose characters are never inspected
Str(s) == [t |-> "str", s |-> s, n |-> 0, l |-> <<>>]
\* a str given by its characters (the strings float() and split() read)
Chars(c) == [t |-> "str", s |-> "", n |-> 0, l |-> c]
\* an int or float, in hundredths
Num(n) == [t |-> "num", s |-> "", n |-> n, l |-> <<>>]
\* a list of str
List(l) == [t |-> "list", s |-> "", n |-> 0, l |-> l]

Ok(v) == [ok |-> TRUE, v |-> v, exc |-> ""]
Raise(e) == [ok |-> FALSE, v |-> <<>>, exc |-> e]

\* dict.get(key, default) on a record of PyVals
Get(d, key, default) == IF d[key].t = "absent" THEN default ELSE d[key]

----------------------------------------------------------------------------
(* float(x) and the "n/d" rescaling of SecurityAgent._get_llm_analysis *)

\* the element of a set of one element: {e : x \in {v}} is e with the value v
\* bound to x, computed once (Python's x = v)
The(S) == CHOOSE e \in S : TRUE

Digits == {"0", "1", "2", "3", "4", "5", "6", "7", "8", "9"}

DigitVal(c) ==
    CASE c = "0" -> 0 [] c = "1" -> 1 [] c = "2" -> 2 [] c = "3" -> 3
      [] c = "4" -> 4 [] c = "5" -> 5 [] c = "6" -> 6 [] c = "7" -> 7
      [] c = "8" -> 8 [] c = "9" -> 9

RECURSIVE DigitsValue(_)
DigitsValue(cs) ==
    IF cs = <<>> THEN 0
    ELSE 10 * DigitsValue(SubSeq(cs, 1, Len(cs) - 1)) + DigitVal(cs[Len(cs)])

RECURSIVE strip(_)
\* str.strip(): leading and trailing blanks removed
strip(cs) ==
    IF cs = <<>> THEN cs
    ELSE IF cs[1] = " " THEN strip(Tail(cs))
    ELSE IF cs[Len(cs)] = " " THEN strip(SubSeq(cs, 1, Len(cs) - 1))
    ELSE cs

\* positions of character c in cs
Positions(cs, c) == {i \in 1..Len(cs) : cs[i] = c}

\* float(str): an optional sign, digits, an optional point and at most two
\* decimals (so that the value is exact in hundredths).  ValueError otherwise.
FloatOfChars(cs0) ==
    The({
    The({
    The({
        IF /\ Cardinality(dots) <= 1
           /\ Len(ip) + Len(fp) > 0
           /\ Len(fp) <= 2
           /\ \A i \in 1..Len(ip) : ip[i] \in Digits
           /\ \A i \in 1..Len(fp) : fp[i] \in Digits
        THEN Ok((IF cs[1] = "-" THEN 0 - 1 ELSE 1)
                * (100 * DigitsValue(ip)
                   + (IF Len(fp) = 1 THEN 10 ELSE 1) * DigitsValue(fp)))
        ELSE Raise("ValueError")
      : ip \in {SubSeq(body, 1, (IF dots = {} THEN Len(body) + 1
                                 ELSE CHOOSE i \in dots : TRUE) - 1)},
        fp \in {SubSeq(body, (IF dots = {} THEN Len(body) + 1
                              ELSE CHOOSE i \in dots : TRUE) + 1, Len(body))} })
      : dots \in {Positions(body, ".")} })
      : cs \in {strip(cs0)},
        body \in {IF strip(cs0) # <<>> /\ strip(cs0)[1] \in {"-", "+"}
                  THEN Tail(strip(cs0)) ELSE strip(cs0)} })

\* float(x) for any Python value
float(x) ==
    CASE x.t = "num" -> Ok(x.n)
      [] x.t = "str" -> FloatOfChars(x.l)
      [] OTHER -> Raise("TypeError")

RECURSIVE split(_, _)
\* str.split(sep): the pieces between the separators
split(cs, sep) ==
    LET ps == Positions(cs, sep)
    IN  IF ps = {} THEN <<cs>>
        ELSE LET p == CHOOSE i \in ps : \A j \in ps : i <= j
             IN  <<SubSeq(cs, 1, p - 1)>> \o split(SubSeq(cs, p + 1, Len(cs)), sep)

\* agent.py 94-103 (and 107-116): the try block that normalizes one score.
\* ValueError and TypeError give the default 5.0; any other exception leaves
\* the block.
NormalizeScore(score_value) ==
    IF score_value.t = "str" /\ Positions(score_value.l, "/") # {}
    THEN The({
             IF Len(parts) # 2 THEN Ok(500)          \* unpacking: ValueError
             ELSE The({
                      IF ~numerator.ok \/ ~denominator.ok THEN Ok(500)
                      ELSE IF denominator.v = 0 THEN Raise("ZeroDivisionError")
                      ELSE Ok((numerator.v * 1000) \div denominator.v)
                    : numerator \in {float(Chars(strip(parts[1])))},
                      denominator \in {float(Chars(strip(parts[2])))} })
           : parts \in {split(score_value.l, "/")} })
    ELSE The({IF f.ok THEN f ELSE Ok(500) : f \in {float(score_value)}})

----------------------------------------------------------------------------
(* Raw threat records, as the sources report them (parsed JSON) *)

\* a threat record with no key set.  isdict is FALSE for a JSON value that
\* is not an object (null).  The keys "Threat Type" and "Potential Impact"
\* are written Threat_Type and Potential_Impact.
BlankThreat ==
    [isdict |-> TRUE, Threat_Type |-> Absent, component_name |-> Absent,
     component_type |-> Absent, Scenario |-> Absent, attack_vectors |-> Absent,
     affected_components |-> Absent, Potential_Impact |-> Absent,
     risk_score |-> Absent, criticality_score |-> Absent, source |-> Absent,
     mitigations |-> Absent]

NullThreat == [BlankThreat EXCEPT !.isdict = FALSE]

R_auth ==
    [BlankThreat EXCEPT !.Threat_Type = Str("Spoofing"),
                        !.component_name = Str("AuthService"),
                        !.component_type = Str("authentication_service"),
                        !.Scenario = Str("Attacker forges a session token"),
                        !.risk_score = Chars(<<"8", "/", "1", "0">>)]

R_sql ==
    [BlankThreat EXCEPT !.Threat_Type = Str("Tampering"),
                        !.component_name = Str("SearchDB"),
                        !.component_type = Str("Database"),
                        !.Scenario = Str("SQL injection via unsanitized search field"),
                        !.affected_components = List(<<"AuthService">>),
                        !.risk_score = Num(600)]

\* the same report without a component type
R_token == [R_auth EXCEPT !.component_type = Absent]

\* a record with an empty scenario and nothing else
R_empty == [BlankThreat EXCEPT !.Scenario = Str("")]

R_div0 ==
    [BlankThreat EXCEPT !.Threat_Type = Str("Denial of Service"),
                        !.component_name = Str("WebUI"),
                        !.component_type = Str("frontend"),
                        !.Scenario = Str("Request flood"),
                        !.risk_score = Chars(<<"7", "/", "0">>)]

R_over ==
    [BlankThreat EXCEPT !.Threat_Type = Str("Phishing"),
                        !.component_name = Str("WebUI"),
                        !.component_type = Str("frontend"),
                        !.Scenario = Str("Credential phishing page"),
                        !.risk_score = Num(1500)]

R_nulltype ==
    [BlankThreat EXCEPT !.Threat_Type = Str("Elevation of Privilege"),
                        !.component_name = Str("SearchDB"),
                        !.component_type = None,
                        !.Scenario = Str("Privilege escalation through admin API"),
                        !.risk_score = Chars(<<"a", "b", "c">>)]

R_nullaff ==
    [BlankThreat EXCEPT !.Threat_Type = Str("Repudiation"),
                        !.component_name = Str("AuthService"),
                        !.Scenario = Str("Audit log deleted"),
                        !.affected_components = None,
                        !.risk_score = Num(-300)]

\* two records whose scores come out at 7.00 and at 6.99 when their component
\* has one neighbour
R_edge ==
    [BlankThreat EXCEPT !.Threat_Type = Str("Spoofing"),
                        !.component_name = Str("WebUI"),
                        !.component_type = Str("frontend"),
                        !.Scenario = Str("Session fixation"),
                        !.risk_score = Num(778)]

R_under ==
    [BlankThreat EXCEPT !.Threat_Type = Str("Information Disclosure"),
                        !.component_name = Str("SearchDB"),
                        !.Scenario = Str("Verbose search errors"),
                        !.affected_components = List(<<"ApiGateway">>),
                        !.risk_score = Num(777)]

\* a record that names its primary component again among the affected ones
\* and one affected component twice; alone it scores 7.8, as R_sql does
R_twice ==
    [BlankThreat EXCEPT !.Threat_Type = Str("Denial of Service"),
                        !.component_name = Str("WebUI"),
                        !.component_type = Str("frontend"),
                        !.Scenario = Str("Search request flood"),
                        !.affected_components = List(<<"WebUI", "SearchDB", "SearchDB">>),
                        !.risk_score = Num(780)]

\* a record whose component_name is null
R_nullname ==
    [BlankThreat EXCEPT !.Threat_Type = Str("Spoofing"),
                        !.component_name = None,
                        !.component_type = Str("frontend"),
                        !.Scenario = Str("Unattributed login bypass"),
                        !.affected_components = List(<<"WebUI">>),
                        !.risk_score = Num(800)]

\* the raw threat records an LLM reply is made of
LLMThreats == {R_auth, R_sql, R_empty, R_div0, R_over, R_nulltype, R_token}

\* a knowledge-base threat, as KnowledgeBaseDB.get_component_threats returns it
KB_sqli ==
    [category |-> Str("Tampering"), description |-> Str("SQL injection"),
     impact_description |-> Absent, component_name |-> Absent,
     attack_vectors |-> List(<<"sql">>), affected_components |-> Absent,
     severity_score |-> Absent, cves |-> Absent,
     mitigations |-> List(<<"Use parameterized queries">>)]

----------------------------------------------------------------------------
(* SecurityAgent: services/agents/agent.py *)

\* an analysis (the second item of an agent_analyses entry).  kind "dict" is a
\* non-empty mapping whose "threats" value is absent, null or a list.
NoneAnalysis == [kind |-> "none", threats |-> Absent, items |-> <<>>]
EmptyDictAnalysis == [kind |-> "emptydict", threats |-> Absent, items |-> <<>>]
StrAnalysis == [kind |-> "str", threats |-> Absent, items |-> <<>>]
DictAnalysis(items) == [kind |-> "dict", threats |-> List(<<>>), items |-> items]
NullThreatsAnalysis == [kind |-> "dict", threats |-> None, items |-> <<>>]

\* _get_empty_response: a mapping with "threat_model": [] and no "threats" key
_get_empty_response == [kind |-> "dict", threats |-> Absent, items |-> <<>>]

\* _validate_response: the list under "threats", or else under "threat_model"
_validate_response(response) ==
    DictAnalysis(IF response.threats # <<>> THEN response.threats
                 ELSE response.threat_model)

\* process_response: no JSON object in the reply gives the empty response
process_response(response) ==
    IF response.parsed THEN _validate_response(response)
    ELSE _get_empty_response

\* agent.py 91-119: one pass of the loop over raw_result["threats"]
NormalizeThreat(threat, name) ==
    IF ~threat.isdict THEN Raise("TypeError")
    ELSE The({
             IF ~rs.ok THEN rs
             ELSE IF ~cs.ok THEN cs
             ELSE Ok([threat EXCEPT
                        !.risk_score = IF @.t = "absent" THEN @ ELSE Num(rs.v),
                        !.criticality_score = IF @.t = "absent" THEN @ ELSE Num(cs.v),
                        !.source = Str(name)])
           : rs \in {IF threat.risk_score.t = "absent" THEN Ok(0)
                     ELSE NormalizeScore(threat.risk_score)},
             cs \in {IF threat.criticality_score.t = "absent" THEN Ok(0)
                     ELSE NormalizeScore(threat.criticality_score)} })

RECURSIVE NormalizeThreats(_, _)
NormalizeThreats(threats, name) ==
    IF threats = <<>> THEN Ok(<<>>)
    ELSE The({
             IF ~h.ok THEN h
             ELSE The({IF ~r.ok THEN r ELSE Ok(<<h.v>> \o r.v)
                       : r \in {NormalizeThreats(Tail(threats), name)}})
           : h \in {NormalizeThreat(Head(threats), name)} })

\* _get_llm_analysis: the reply is processed and its scores normalized; any
\* exception gives the empty response
_get_llm_analysis(name, response) ==
    IF ~response.answered THEN _get_empty_response
    ELSE The({
             IF raw_result.threats.t = "absent" THEN raw_result
             ELSE The({IF n.ok THEN DictAnalysis(n.v) ELSE _get_empty_response
                       : n \in {NormalizeThreats(raw_result.items, name)}})
           : raw_result \in {process_response(response)} })

\* _merge_threats 531-544: a knowledge-base threat in the common format
FormatKBThreat(threat) ==
    [BlankThreat EXCEPT
        !.Threat_Type = Get(threat, "category", Str("Unknown")),
        !.Scenario = Get(threat, "description", Str("")),
        !.Potential_Impact = Get(threat, "impact_description", Str("")),
        !.component_name = Get(threat, "component_name", Str("System")),
        !.attack_vectors = Get(threat, "attack_vectors", List(<<>>)),
        !.affected_components = Get(threat, "affected_components", List(<<>>)),
        !.criticality_score = Get(threat, "severity_score", Num(500)),
        !.source = Str("Knowledge Base"),
        !.mitigations = Get(threat, "mitigations", List(<<>>))]

\* _merge_threats: knowledge-base threats first, then the LLM threats tagged
\* "LLM Analysis"
_merge_threats(kb_threats, llm_result) ==
    LET formatted_kb_threats == [i \in 1..Len(kb_threats) |-> FormatKBThreat(kb_threats[i])]
        llm_threats == [i \in 1..Len(llm_result.items) |->
                          [llm_result.items[i] EXCEPT !.source = Str("LLM Analysis")]]
    IN  DictAnalysis(formatted_kb_threats \o llm_threats)

\* _filter_threats_by_category: the agent's own STRIDE category
_filter_threats_by_category(name, threats) ==
    LET relevant ==
            CASE name = "SpoofingExpert" -> {Str("Spoofing")}
              [] name = "TamperingExpert" -> {Str("Tampering")}
              [] name = "RepudiationExpert" -> {Str("Repudiation")}
              [] name = "DosExpert" -> {Str("Denial of Service")}
              [] name = "ElevationExpert" -> {Str("Elevation of Privilege")}
              [] OTHER -> {}
    IN  IF relevant = {} THEN threats
        ELSE SelectSeq(threats, LAMBDA th : th.category \in relevant)

\* _compile_threats: the compiler agent's model has "threat_model", not "threats"
_compile_threats == [kind |-> "dict", threats |-> Absent, items |-> <<>>]

\* get_solution(problem, previous_solution, architecture_analysis) of the
\* agent called name, for the knowledge-base threats kb and the LLM reply
get_solution(name, kb, response) ==
    IF name = "ThreatModelCompiler" THEN _compile_threats
    ELSE _merge_threats(_filter_threats_by_category(name, kb),
                        _get_llm_analysis(name, response))

----------------------------------------------------------------------------
(* Architecture graphs *)

\* arch: kind "none" is an absent graph (None), kind "dict" a mapping
\* whose "components" and "relationships" default to [].  A description is
\* the sequence of its words.
NoGraph == [kind |-> "none", components |-> <<>>, relationships |-> <<>>]
EmptyGraph == [kind |-> "dict", components |-> <<>>, relationships |-> <<>>]

Component(name, type, description) ==
    [name |-> name, type |-> type, description |-> description,
     data_type |-> <<>>, technologies |-> <<>>]

Relationship(source, target, data_flow) ==
    [source |-> source, target |-> target, data_flow |-> data_flow]

\* AuthService with three distinct neighbours (one of them over two
\* relationships) and a description naming credentials
HubGraph ==
    [kind |-> "dict",
     components |->
        <<Component("AuthService", "authentication_service",
                    <<"Stores", "user", "credentials", "and", "password", "hashes">>),
          Component("SearchDB", "database", <<"Product", "search", "index">>),
          Component("WebUI", "frontend", <<"Single", "page", "app">>),
          [Component("ApiGateway", "api_gateway", <<"Public", "entry", "point">>)
             EXCEPT !.technologies = <<"OAuth2">>]>>,
     relationships |->
        <<Relationship("WebUI", "AuthService", <<"login", "credentials">>),
          Relationship("AuthService", "SearchDB", <<"queries">>),
          Relationship("ApiGateway", "AuthService", <<"session", "token">>),
          Relationship("AuthService", "WebUI", <<"session", "cookie">>)>>]

\* one relationship, no component descriptions
PairGraph ==
    [kind |-> "dict",
     components |-> <<>>,
     relationships |-> <<Relationship("WebUI", "SearchDB", <<"search", "terms">>)>>]

\* WebUI with eight distinct neighbours, two of them over two relationships
StarGraph ==
    [kind |-> "dict",
     components |-> <<>>,
     relationships |->
        <<Relationship("WebUI", "AuthService", <<"login">>),
          Relationship("AuthService", "WebUI", <<"session">>),
          Relationship("WebUI", "SearchDB", <<"search", "terms">>),
          Relationship("WebUI", "SearchDB", <<"suggestions">>),
          Relationship("ApiGateway", "WebUI", <<"pages">>),
          Relationship("WebUI", "Cache", <<"fragments">>),
          Relationship("WebUI", "Queue", <<"events">>),
          Relationship("Mailer", "WebUI", <<"receipts">>),
          Relationship("WebUI", "Billing", <<"orders">>),
          Relationship("Reports", "WebUI", <<"charts">>)>>]

Graphs == {NoGraph, EmptyGraph, HubGraph, PairGraph, StarGraph}

----------------------------------------------------------------------------
(* str operations on the vocabulary of the model *)

\* str.lower()
lower(s) ==
    CASE s = "Database" -> "database"
      [] s = "Stores" -> "stores"
      [] s = "Product" -> "product"
      [] s = "Single" -> "single"
      [] s = "Public" -> "public"
      [] s = "AuthService" -> "authservice"
      [] s = "SearchDB" -> "searchdb"
      [] s = "WebUI" -> "webui"
      [] s = "ApiGateway" -> "apigateway"
      [] s = "System" -> "system"
      [] s = "OAuth2" -> "oauth2"
      [] OTHER -> s

\* term in word (substring), for lower-case words of the vocabulary
Contains(word, term) ==
    \/ word = term
    \/ <<word, term>> \in {<<"credentials", "credential">>,
                           <<"apigateway", "gateway">>,
                           <<"oauth2", "oauth">>,
                           <<"oauth2", "auth">>,
                           <<"authservice", "auth">>}

\* term in text, for a text given by its words
InText(words, term) == \E i \in 1..Len(words) : Contains(lower(words[i]), term)

----------------------------------------------------------------------------
(* ThreatModelCompiler: services/threat_model_compiler.py *)

\* __init__: self.component_weights, in tenths
component_weights ==
    [authentication_service |-> 15, api_gateway |-> 14, database |-> 13,
     backend |-> 12, frontend |-> 10, cache |-> 9, static_content |-> 8]

\* f"THREAT-{threat_counter:03d}"
ThreatId(threat_counter) ==
    "THREAT-" \o (IF threat_counter < 10 THEN "00"
                  ELSE IF threat_counter < 100 THEN "0" ELSE "")
              \o ToString(threat_counter)

\* lines 104-119: the ComponentThreat built from one raw record
MakeComponentThreat(threat, threat_counter) ==
    IF ~threat.isdict THEN Raise("AttributeError")
    ELSE The({
             IF ~base_score.ok THEN base_score
             ELSE Ok([threat_id |-> ThreatId(threat_counter),
                      threat_type |-> Get(threat, "Threat_Type", Str("Unknown")),
                      component_name |-> Get(threat, "component_name", Str("System")),
                      component_type |-> Get(threat, "component_type", Str("Unknown")),
                      scenario |-> Get(threat, "Scenario", Str("")),
                      attack_vectors |-> Get(threat, "attack_vectors", List(<<>>)),
                      affected_components |-> Get(threat, "affected_components", List(<<>>)),
                      impact |-> Get(threat, "Potential_Impact", Str("")),
                      base_score |-> base_score.v,
                      criticality_score |-> 0,
                      mitigations |-> <<>>])
           : base_score \in {float(Get(threat, "risk_score", Num(500)))} })

RECURSIVE ExtractThreats(_, _, _)
\* lines 103-120: the inner loop over analysis.get("threats", [])
ExtractThreats(items, threat_counter, threats) ==
    IF items = <<>> THEN Ok(threats)
    ELSE The({
             IF ~ct.ok THEN ct
             ELSE ExtractThreats(Tail(items), threat_counter + 1, Append(threats, ct.v))
           : ct \in {MakeComponentThreat(Head(items), threat_counter)} })

RECURSIVE ExtractLoop_enumerated(_, _, _)
\* the loop with a counter that also advances on an entry it skips
ExtractLoop_enumerated(agent_analyses, threat_counter, threats) ==
    IF agent_analyses = <<>> THEN Ok(threats)
    ELSE LET agent_name == Head(agent_analyses)[1]
             analysis == Head(agent_analyses)[2]
         IN  IF analysis.kind \in {"none", "emptydict"} \/ agent_name = "ThreatModelCompiler"
             THEN ExtractLoop_enumerated(Tail(agent_analyses), threat_counter + 1, threats)
             ELSE IF analysis.kind # "dict" THEN Raise("AttributeError")
             ELSE IF analysis.threats.t = "none" THEN Raise("TypeError")
             ELSE The({
                      IF ~r.ok THEN r
                      ELSE ExtractLoop_enumerated(Tail(agent_analyses),
                                                  threat_counter + Len(analysis.items), r.v)
                    : r \in {ExtractThreats(analysis.items, threat_counter, threats)} })

RECURSIVE ExtractLoop(_, _, _)
\* lines 99-120: the loop over agent_analyses, from a counter and a list
ExtractLoop(agent_analyses, threat_counter, threats) ==
    IF agent_analyses = <<>> THEN Ok(threats)
    ELSE LET agent_name == Head(agent_analyses)[1]
             analysis == Head(agent_analyses)[2]
         IN  IF analysis.kind \in {"none", "emptydict"} \/ agent_name = "ThreatModelCompiler"
             THEN ExtractLoop(Tail(agent_analyses), threat_counter, threats)
             ELSE IF analysis.kind # "dict" THEN Raise("AttributeError")
             ELSE IF analysis.threats.t = "none" THEN Raise("TypeError")
             ELSE The({
                      IF ~r.ok THEN r
                      ELSE ExtractLoop(Tail(agent_analyses),
                                       threat_counter + Len(analysis.items), r.v)
                    : r \in {ExtractThreats(analysis.items, threat_counter, threats)} })

\* a counter that lives on the instance and goes on from the last call
FirstThreatCounter_kept ==
    IF "threat_model" \in DOMAIN result THEN Len(result.threat_model) + 1 ELSE 1

\* the first value of threat_counter (line 96)
FirstThreatCounter == 1

\* _extract_component_threats: any exception gives []
_extract_component_threats(agent_analyses) ==
    The({IF r.ok THEN r.v ELSE <<>>
         : r \in {ExtractLoop(agent_analyses, FirstThreatCounter, <<>>)}})

\* _get_component_weight: component_type.lower() raises on a non-str
_get_component_weight(component_type) ==
    IF component_type.t # "str" THEN Raise("AttributeError")
    ELSE LET key == lower(component_type.s)
         IN  Ok(IF key \in DOMAIN component_weights THEN component_weights[key] ELSE 10)

\* _calculate_connectivity_score without the min(1.5, ...)
_calculate_connectivity_score_uncapped(component_name, arch) ==
    IF arch.kind = "none" THEN 10
    ELSE LET relationships == arch.relationships
             rels == {relationships[i] : i \in 1..Len(relationships)}
             connected_components ==
                 {rel.target : rel \in {r \in rels : Str(r.source) = component_name}}
                 \cup {rel.source : rel \in {r \in rels : Str(r.target) = component_name}}
             score == 8 + Cardinality(connected_components)
         IN  score

\* _calculate_connectivity_score, in tenths: min(1.5, 0.8 + 0.1 * n)
_calculate_connectivity_score(component_name, arch) ==
    IF arch.kind = "none" THEN 10
    ELSE LET relationships == arch.relationships
             rels == {relationships[i] : i \in 1..Len(relationships)}
             connected_components ==
                 {rel.target : rel \in {r \in rels : Str(r.source) = component_name}}
                 \cup {rel.source : rel \in {r \in rels : Str(r.target) = component_name}}
             score == 8 + Cardinality(connected_components)
         IN  IF score < 15 THEN score ELSE 15

sensitivity_indicators ==
    {"pii", "personal", "sensitive", "credential", "payment",
     "financial", "health", "password", "secret", "key"}

\* _assess_data_sensitivity, in tenths: min(2.0, 1.0 + 0.2 * matches)
_assess_data_sensitivity(component_name, arch) ==
    IF arch.kind = "none" THEN 10
    ELSE LET components == arch.components
             found == {i \in 1..Len(components) : Str(components[i].name) = component_name}
             description ==
                 IF found = {} THEN <<>>
                 ELSE LET c == components[CHOOSE i \in found : \A j \in found : i <= j]
                      IN  c.description \o c.data_type
             matches == Cardinality({ind \in sensitivity_indicators : InText(description, ind)})
             score == 10 + 2 * matches
         IN  IF score < 20 THEN score ELSE 20

\* round(x, 2) of x given in units of 10^-5: to the nearest hundredth, a tie
\* to the even one
Round2(x) ==
    LET q == x \div 1000
        r == x % 1000
    IN  IF r > 500 \/ (r = 500 /\ q % 2 = 1) THEN q + 1 ELSE q

\* _compute_final_score with the connectivity factor of the least connected
\* component mirrored: 0.8 counts as 1.5 and 1.5 as 0.8
_compute_final_score_mirrored(base_score, component_weight, connectivity_score, data_sensitivity) ==
    Round2(base_score * component_weight * (23 - connectivity_score) * data_sensitivity)

\* _compute_final_score
_compute_final_score(base_score, component_weight, connectivity_score, data_sensitivity) ==
    Round2(base_score * component_weight * connectivity_score * data_sensitivity)

\* lines 136-154: the scoring loop.  A threat whose component_type is not a
\* str stops the loop with the threats before it scored and the rest untouched.
RECURSIVE ScoreLoop(_, _, _)
ScoreLoop(threats, i, arch) ==
    IF i > Len(threats) THEN Ok(threats)
    ELSE The({
             IF ~component_weight.ok
             THEN [ok |-> FALSE, v |-> threats, exc |-> component_weight.exc]
             ELSE ScoreLoop(
                    [threats EXCEPT ![i].criticality_score =
                        _compute_final_score(
                            threats[i].base_score,
                            component_weight.v,
                            _calculate_connectivity_score(threats[i].component_name, arch),
                            _assess_data_sensitivity(threats[i].component_name, arch))],
                    i + 1, arch)
           : component_weight \in {_get_component_weight(threats[i].component_type)} })

\* sorted(..., key=criticality_score, reverse=True) puts x into a sorted
\* list: after every threat whose key is at least its own (the sort is stable)
InsertByScore(sorted, x) ==
    LET before == {i \in 1..Len(sorted) : sorted[i].criticality_score >= x.criticality_score}
        k == Cardinality(before)
    IN  SubSeq(sorted, 1, k) \o <<x>> \o SubSeq(sorted, k + 1, Len(sorted))

RECURSIVE SortedByScore(_)
SortedByScore(threats) ==
    IF threats = <<>> THEN <<>>
    ELSE InsertByScore(SortedByScore(SubSeq(threats, 1, Len(threats) - 1)),
                       threats[Len(threats)])

\* _calculate_criticality_scores: the scored threats sorted, or on an
\* exception the list as the loop left it
_calculate_criticality_scores(threats, arch) ==
    The({IF r.ok THEN SortedByScore(r.v) ELSE r.v : r \in {ScoreLoop(threats, 1, arch)}})

\* the items a for loop reads from a value: TypeError on a value that is not
\* iterable (a str is read by its characters)
Iterate(x) == IF x.t \in {"list", "str"} THEN Ok(x.l) ELSE Raise("TypeError")

\* a dict key must be hashable
Hashable(x) == x.t # "list"

\* mapping[component].append(threat_id), on a dict kept as the sequence of
\* its items in insertion order
MapAppend(mapping, component, threat_id) ==
    IF \E i \in 1..Len(mapping) : mapping[i].component = component
    THEN [i \in 1..Len(mapping) |->
            IF mapping[i].component = component
            THEN [mapping[i] EXCEPT !.threat_ids = Append(@, threat_id)]
            ELSE mapping[i]]
    ELSE Append(mapping, [component |-> component, threat_ids |-> <<threat_id>>])

\* a mapping that lists a threat under its primary component only
MapAppendAll_skipped(mapping, components, threat_id) == mapping

RECURSIVE MapAppendAll(_, _, _)
MapAppendAll(mapping, components, threat_id) ==
    IF components = <<>> THEN mapping
    ELSE MapAppendAll(MapAppend(mapping, Str(Head(components)), threat_id),
                      Tail(components), threat_id)

RECURSIVE MappingLoop(_, _)
MappingLoop(threats, mapping) ==
    IF threats = <<>> THEN Ok(mapping)
    ELSE The({
             IF ~Hashable(threat.component_name) THEN Raise("TypeError")
             ELSE IF ~affected.ok THEN affected
             ELSE MappingLoop(Tail(threats),
                              MapAppendAll(MapAppend(mapping, threat.component_name, threat.threat_id),
                                           affected.v, threat.threat_id))
           : threat \in {Head(threats)},
             affected \in {Iterate(Head(threats).affected_components)} })

\* _generate_threat_mapping
_generate_threat_mapping(threats) == MappingLoop(threats, <<>>)

\* _get_criticality_level
_get_criticality_level(score) ==
    IF score >= 800 THEN "CRITICAL"
    ELSE IF score >= 600 THEN "HIGH"
    ELSE IF score >= 400 THEN "MEDIUM"
    ELSE "LOW"

\* _threat_to_dict
_threat_to_dict(threat) ==
    [threat_id |-> threat.threat_id,
     Threat_Type |-> threat.threat_type,
     component_name |-> threat.component_name,
     component_type |-> threat.component_type,
     Scenario |-> threat.scenario,
     attack_vectors |-> threat.attack_vectors,
     affected_components |-> threat.affected_components,
     Potential_Impact |-> threat.impact,
     criticality_score |-> threat.criticality_score,
     criticality_level |-> _get_criticality_level(threat.criticality_score)]

\* the strings of the model that are sorted or hashed, in code point order
StrOrder ==
    <<"ApiGateway", "AuthService", "Denial of Service", "Elevation of Privilege",
      "Information Disclosure", "Phishing", "Repudiation", "SearchDB", "Spoofing",
      "System", "Tampering", "Unknown", "WebUI">>

StrIndex(s) == CHOOSE i \in 1..Len(StrOrder) : StrOrder[i] = s

\* the place of a value among the values of one set (None before every str)
PyIndex(x) == IF x.t = "str" THEN StrIndex(x.s) ELSE 0

RECURSIVE ListByKey(_, _)
\* the elements of S in increasing order of the function key
ListByKey(S, key) ==
    IF S = {} THEN <<>>
    ELSE LET x == CHOOSE y \in S : \A z \in S : key[y] <= key[z]
         IN  <<x>> \o ListByKey(S \ {x}, key)

\* list(set) of values: the iteration order of a set follows the hashes of
\* its elements, which the hash seed of the process fixes
ListOfSet(S, seed) == ListByKey(S, [x \in S |-> (PyIndex(x) * seed) % 17])

\* the threats of one component, in list order
ThreatsOf(threats, component) == SelectSeq(threats, LAMBDA t : t.component_name = component)

\* the distinct component_name values, in order of first occurrence
RECURSIVE FirstOccurrences(_, _)
FirstOccurrences(threats, seen) ==
    IF threats = <<>> THEN seen
    ELSE FirstOccurrences(Tail(threats),
            IF \E i \in 1..Len(seen) : seen[i] = Head(threats).component_name THEN seen
            ELSE Append(seen, Head(threats).component_name))

Max(S) == CHOOSE x \in S : \A y \in S : y <= x

\* _calculate_component_risk_levels
_calculate_component_risk_levels(threats, seed) ==
    IF \E i \in 1..Len(threats) :
          ~Hashable(threats[i].component_name) \/ ~Hashable(threats[i].threat_type)
    THEN Raise("TypeError")
    ELSE LET names == FirstOccurrences(threats, <<>>)
         IN  Ok([k \in 1..Len(names) |->
                  LET mine == ThreatsOf(threats, names[k])
                  IN  [component |-> names[k],
                       highest_criticality |->
                           Max({0} \cup {mine[i].criticality_score : i \in 1..Len(mine)}),
                       threat_count |-> Len(mine),
                       threat_types |->
                           ListOfSet({mine[i].threat_type : i \in 1..Len(mine)}, seed)]])

\* _get_empty_model
_get_empty_model ==
    [threat_model |-> <<>>, component_mapping |-> <<>>, component_risk_levels |-> <<>>,
     critical_paths |-> <<>>, improvement_suggestions |-> <<>>,
     risk_summary |-> [empty |-> TRUE]]

\* f"{x:.1f}" of x in hundredths: tenths, a tie to the even one
Round1(x) ==
    LET q == x \div 10
        r == x % 10
    IN  IF r > 5 \/ (r = 5 /\ q % 2 = 1) THEN q + 1 ELSE q


\* the threshold of the level MEDIUM in place of 7.0: the least score that
\* _get_criticality_level does not call LOW
CriticalPathThreshold_medium ==
    CHOOSE score \in 0..1000 :
        /\ _get_criticality_level(score) # "LOW"
        /\ \A below \in 0..(score - 1) : _get_criticality_level(below) = "LOW"

\* the threshold of _identify_critical_paths (line 362), in hundredths
CriticalPathThreshold == 700

\* _identify_critical_paths reporting only the paths above the threshold
_identify_critical_paths_above(threats, arch) ==
    IF arch.kind = "none" THEN <<>>
    ELSE IF \E i \in 1..Len(threats) : ~Hashable(threats[i].component_name) THEN <<>>
    ELSE LET relationships == arch.relationships
             path_criticality(rel) ==
                 Max({0} \cup {threats[i].criticality_score : i \in
                        {j \in 1..Len(threats) :
                            threats[j].component_name \in {Str(rel.source), Str(rel.target)}}})
             critical == SelectSeq(relationships,
                                   LAMBDA rel : path_criticality(rel) > CriticalPathThreshold)
         IN  [k \in 1..Len(critical) |->
                [path |-> <<critical[k].source, critical[k].target>>,
                 risk_level |-> _get_criticality_level(path_criticality(critical[k])),
                 description |-> [source |-> critical[k].source,
                                  target |-> critical[k].target,
                                  score |-> Round1(path_criticality(critical[k]))]]]

\* _identify_critical_paths: any exception gives []
_identify_critical_paths(threats, arch) ==
    IF arch.kind = "none" THEN <<>>
    ELSE IF \E i \in 1..Len(threats) : ~Hashable(threats[i].component_name) THEN <<>>
    ELSE LET relationships == arch.relationships
             path_criticality(rel) ==
                 Max({0} \cup {threats[i].criticality_score : i \in
                        {j \in 1..Len(threats) :
                            threats[j].component_name \in {Str(rel.source), Str(rel.target)}}})
             critical == SelectSeq(relationships,
                                   LAMBDA rel : path_criticality(rel) >= CriticalPathThreshold)
         IN  [k \in 1..Len(critical) |->
                [path |-> <<critical[k].source, critical[k].target>>,
                 risk_level |-> _get_criticality_level(path_criticality(critical[k])),
                 description |-> [source |-> critical[k].source,
                                  target |-> critical[k].target,
                                  score |-> Round1(path_criticality(critical[k]))]]]

----------------------------------------------------------------------------
(* improvement suggestions: a suggestion is the record of its template
   (kind) and of the values formatted into it *)

Suggestion(kind, a, b, n) == [kind |-> kind, a |-> a, b |-> b, n |-> n]

\* str(x) of a component name
PyStr(x) == IF x.t = "str" THEN x.s ELSE "None"

\* _generate_component_improvements: one suggestion per component that has
\* threats of score 7.0 or more
_generate_component_improvements(threats) ==
    IF \E i \in 1..Len(threats) : ~Hashable(threats[i].component_name)
    THEN Raise("TypeError")
    ELSE LET names == FirstOccurrences(threats, <<>>)
             high_risk_threats(c) ==
                 SelectSeq(ThreatsOf(threats, c), LAMBDA t : t.criticality_score >= 700)
         IN  Ok({Suggestion("harden", PyStr(names[k]), "", Len(high_risk_threats(names[k]))) :
                    k \in {j \in 1..Len(names) : Len(high_risk_threats(names[j])) > 0}})

\* _generate_architecture_improvements
_generate_architecture_improvements(arch) ==
    IF arch.kind = "none" THEN Raise("AttributeError")
    ELSE LET relationships == arch.relationships
             components == arch.components
             sensitive(rel) ==
                 \E term \in {"sensitive", "credential", "token"} : InText(rel.data_flow, term)
             named(term) ==
                 \E i \in 1..Len(components) : Contains(lower(components[i].name), term)
         IN  Ok({Suggestion("encrypt", relationships[i].source, relationships[i].target, 0) :
                    i \in {j \in 1..Len(relationships) : sensitive(relationships[j])}}
                \cup (IF named("waf") THEN {} ELSE {Suggestion("waf", "", "", 0)})
                \cup (IF named("gateway") THEN {} ELSE {Suggestion("gateway", "", "", 0)}))

\* _generate_technology_improvements
_generate_technology_improvements(arch) ==
    IF arch.kind = "none" THEN Raise("AttributeError")
    ELSE LET components == arch.components
             techs == UNION {{<<components[i].name, lower(components[i].technologies[j])>> :
                                j \in 1..Len(components[i].technologies)} :
                             i \in 1..Len(components)}
         IN  Ok({Suggestion("db_encryption", u[1], "", 0) :
                    u \in {v \in techs : v[2] \in {"mysql", "postgresql", "mongodb"}}}
                \cup {Suggestion("cache_encryption", u[1], "", 0) :
                    u \in {v \in techs : v[2] \in {"redis", "memcached"}}}
                \cup {Suggestion("oauth_pkce", "", "", 0) :
                    u \in {v \in techs : Contains(v[2], "oauth") \/ Contains(v[2], "auth")}})

StrIndexOrZero(s) == IF \E i \in 1..Len(StrOrder) : StrOrder[i] = s THEN StrIndex(s) ELSE 0

KindIndex(kind) ==
    CASE kind = "harden" -> 1 [] kind = "encrypt" -> 2 [] kind = "waf" -> 3
      [] kind = "gateway" -> 4 [] kind = "db_encryption" -> 5
      [] kind = "cache_encryption" -> 6 [] kind = "oauth_pkce" -> 7

\* a number that tells the suggestions of the model apart
SuggestionIndex(x) ==
    ((KindIndex(x.kind) * 20 + StrIndexOrZero(x.a)) * 20 + StrIndexOrZero(x.b)) * 10 + x.n

\* _generate_improvements: list(set) of the three groups, [] on any exception
_generate_improvements(threats, arch, seed) ==
    The({
        IF ~component_improvements.ok \/ ~arch_improvements.ok \/ ~tech_improvements.ok
        THEN <<>>
        ELSE The({ListByKey(improvements,
                            [x \in improvements |-> (SuggestionIndex(x) * seed) % 30011])
                  : improvements \in {component_improvements.v \cup arch_improvements.v
                                      \cup tech_improvements.v}})
      : component_improvements \in {_generate_component_improvements(threats)},
        arch_improvements \in {_generate_architecture_improvements(arch)},
        tech_improvements \in {_generate_technology_improvements(arch)} })

----------------------------------------------------------------------------
(* risk summary and the compiled model *)

\* no slice: every threat of the report is kept
HighestRisksLimit_all == MaxReported

\* the number of threats highest_risks keeps (line 525)
HighestRisksLimit == 5

\* the distinct threat_type values, in order of first occurrence
RECURSIVE FirstTypes(_, _)
FirstTypes(threats, seen) ==
    IF threats = <<>> THEN seen
    ELSE FirstTypes(Tail(threats),
            IF \E i \in 1..Len(seen) : seen[i] = Head(threats).threat_type THEN seen
            ELSE Append(seen, Head(threats).threat_type))

\* [t.component_name] + t.affected_components, as a set
NamedBy(t) == {t.component_name} \cup {Str(t.affected_components.l[i]) :
                                         i \in 1..Len(t.affected_components.l)}

\* the summary of the except branch (lines 539-546)
EmptyRiskSummary ==
    [risk_distribution |-> [none |-> 0],
     threat_distribution |-> <<>>, total_threats |-> 0, affected_components |-> 0,
     highest_risks |-> <<>>, most_affected_components |-> <<>>]

\* _generate_risk_summary
_generate_risk_summary(threats) ==
    LET level(t) == _get_criticality_level(t.criticality_score)
        count(l) == Cardinality({i \in 1..Len(threats) : level(threats[i]) = l})
        types == FirstTypes(threats, <<>>)
        affected_components == UNION {NamedBy(threats[i]) : i \in 1..Len(threats)}
        ranked == SortedByScore(threats)
        top == SubSeq(ranked, 1, IF Len(ranked) < HighestRisksLimit THEN Len(ranked)
                                 ELSE HighestRisksLimit)
        names == ListByKey(affected_components, [x \in affected_components |-> PyIndex(x)])
    IN  IF \/ \E i \in 1..Len(threats) : ~Hashable(threats[i].threat_type)
           \/ \E i \in 1..Len(threats) : ~Hashable(threats[i].component_name)
           \/ \E i \in 1..Len(threats) : ~Iterate(threats[i].affected_components).ok
           \* sorted() cannot compare None with a str
           \/ \E x, y \in affected_components : x.t = "none" /\ y.t = "str"
        THEN EmptyRiskSummary
        ELSE [risk_distribution |->
                 [critical |-> count("CRITICAL"), high |-> count("HIGH"),
                  medium |-> count("MEDIUM"), low |-> count("LOW")],
              threat_distribution |->
                 [k \in 1..Len(types) |->
                    [threat_type |-> types[k],
                     count |-> Cardinality({i \in 1..Len(threats) :
                                              threats[i].threat_type = types[k]})]],
              total_threats |-> Len(threats),
              affected_components |-> Cardinality(affected_components),
              highest_risks |->
                 [k \in 1..Len(top) |->
                    [component |-> top[k].component_name,
                     score |-> top[k].criticality_score,
                     threat_type |-> top[k].threat_type]],
              most_affected_components |->
                 [k \in 1..Len(names) |->
                    [component |-> names[k],
                     threat_count |-> Cardinality({i \in 1..Len(threats) :
                                                     names[k] \in NamedBy(threats[i])})]]]

\* _compile_final_model: component_risk_levels is the one part with no
\* except branch of its own
_compile_final_model(threats, threat_mapping, arch, seed) ==
    The({
        IF ~levels.ok THEN levels
        ELSE Ok([threat_model |-> [i \in 1..Len(threats) |-> _threat_to_dict(threats[i])],
                 component_mapping |-> threat_mapping,
                 component_risk_levels |-> levels.v,
                 critical_paths |-> _identify_critical_paths(threats, arch),
                 improvement_suggestions |-> _generate_improvements(threats, arch, seed),
                 risk_summary |-> _generate_risk_summary(threats)])
      : levels \in {_calculate_component_risk_levels(threats, seed)} })

\* lines 63-85: the body of the try block of compile_threat_model
CompileBody(agent_analyses, arch, seed) ==
    The({
    The({
        IF ~threat_mapping.ok THEN threat_mapping
        ELSE _compile_final_model(scored_threats, threat_mapping.v, arch, seed)
      : threat_mapping \in {_generate_threat_mapping(scored_threats)} })
      : scored_threats \in
            {_calculate_criticality_scores(_extract_component_threats(agent_analyses), arch)} })

\* compile_threat_model without its except branch: the exception leaves the call
compile_threat_model_uncaught(agent_analyses, arch, seed) ==
    The({IF r.ok THEN r.v ELSE r : r \in {CompileBody(agent_analyses, arch, seed)}})

\* compile_threat_model: the compiled model, the empty model on any exception
compile_threat_model(agent_analyses, arch, seed) ==
    The({IF r.ok THEN r.v ELSE _get_empty_model
         : r \in {CompileBody(agent_analyses, arch, seed)}})

----------------------------------------------------------------------------
(* SecurityAgent._deduplicate_threats: services/agents/agent.py 572-601.
   A scenario is a Chars value, the sequence of its characters. *)

UpperCase ==
    <<"A", "B", "C", "D", "E", "F", "G", "H", "I", "J", "K", "L", "M",
      "N", "O", "P", "Q", "R", "S", "T", "U", "V", "W", "X", "Y", "Z">>

LowerCase ==
    <<"a", "b", "c", "d", "e", "f", "g", "h", "i", "j", "k", "l", "m",
      "n", "o", "p", "q", "r", "s", "t", "u", "v", "w", "x", "y", "z">>

\* str.lower(), character by character
lower_chars(cs) ==
    [i \in 1..Len(cs) |->
        IF \E k \in 1..26 : UpperCase[k] = cs[i]
        THEN LowerCase[CHOOSE k \in 1..26 : UpperCase[k] = cs[i]]
        ELSE cs[i]]

\* the characters r'\w' matches
WordChar(c) ==
    \/ c \in Digits
    \/ c = "_"
    \/ \E k \in 1..26 : c \in {UpperCase[k], LowerCase[k]}

RECURSIVE findall_words(_, _)
\* re.findall(r'\w+', s): the maximal runs of word characters, in order;
\* word is the run being read
findall_words(cs, word) ==
    IF cs = <<>> THEN (IF word = <<>> THEN <<>> ELSE <<word>>)
    ELSE IF WordChar(Head(cs)) THEN findall_words(Tail(cs), Append(word, Head(cs)))
    ELSE (IF word = <<>> THEN <<>> ELSE <<word>>) \o findall_words(Tail(cs), <<>>)

\* the code points in increasing order, for the characters of the model
CodePoints == <<" ", "!", "-", ".">> \o <<"0", "1", "2", "3", "4", "5", "6", "7", "8", "9">>
              \o UpperCase \o <<"_">> \o LowerCase

CodePoint(c) == CHOOSE i \in 1..Len(CodePoints) : CodePoints[i] = c

RECURSIVE StrLess(_, _)
\* a < b on str: the first differing character decides, a prefix is smaller
StrLess(a, b) ==
    IF b = <<>> THEN FALSE
    ELSE IF a = <<>> THEN TRUE
    ELSE IF Head(a) = Head(b) THEN StrLess(Tail(a), Tail(b))
    ELSE CodePoint(Head(a)) < CodePoint(Head(b))

RECURSIVE sorted(_)
\* sorted(words) of a set of words
sorted(words) ==
    IF words = {} THEN <<>>
    ELSE The({ <<w>> \o sorted(words \ {w}) :
               w \in {x \in words : \A y \in words \ {x} : StrLess(x, y)} })

RECURSIVE join(_, _)
\* sep.join(words)
join(sep, words) ==
    IF words = <<>> THEN <<>>
    ELSE IF Len(words) = 1 THEN words[1]
    ELSE words[1] \o sep \o join(sep, Tail(words))

\* set(re.findall(r'\w+', scenario)) of the lower-case scenario
WordSet(scenario) ==
    The({ {words[i] : i \in 1..Len(words)} :
          words \in {findall_words(lower_chars(scenario), <<>>)} })

\* ScenarioKey on the scenario as written, its case kept
ScenarioKey_cased(scenario) ==
    join(<<" ">>, sorted({findall_words(scenario, <<>>)[i] :
                              i \in 1..Len(findall_words(scenario, <<>>))}))

\* lines 579-581: the key of a scenario is its lower-case words, each once,
\* sorted and joined by blanks
ScenarioKey(scenario) == join(<<" ">>, sorted(WordSet(scenario)))

\* set(x) of a list of names; anything else the inputs hold there (None, a
\* number) is not iterable
SetOfList(x) ==
    IF x.t = "list" THEN Ok({x.l[i] : i \in 1..Len(x.l)}) ELSE Raise("TypeError")

\* list(set) of names, in the iteration order the hash seed fixes
ListOfNames(S, seed) == ListByKey(S, [x \in S |-> (StrIndex(x) * seed) % 17])

\* MergeIntoExisting with the score of the later record kept
MergeIntoExisting_latest(existing_threat, threat, seed) ==
    The({ IF ~existing_components.ok THEN existing_components
          ELSE IF ~new_components.ok THEN new_components
          ELSE The({ IF ~a.ok THEN a
                     ELSE IF ~b.ok THEN b
                     ELSE Ok([existing_threat EXCEPT
                                !.source = Str(PyStr(Get(existing_threat, "source", Str("")))
                                               \o " + "
                                               \o PyStr(Get(threat, "source", Str("")))),
                                !.affected_components =
                                    List(ListOfNames(existing_components.v \cup new_components.v, seed)),
                                !.criticality_score = Num(b.v)]) :
                     a \in {float(Get(existing_threat, "criticality_score", Num(0)))},
                     b \in {float(Get(threat, "criticality_score", Num(0)))} }) :
          existing_components \in {SetOfList(Get(existing_threat, "affected_components", List(<<>>)))},
          new_components \in {SetOfList(Get(threat, "affected_components", List(<<>>)))} })

\* lines 588-599: the record seen first takes the source of both, the union
\* of the affected components and the larger criticality score
MergeIntoExisting(existing_threat, threat, seed) ==
    The({ IF ~existing_components.ok THEN existing_components
          ELSE IF ~new_components.ok THEN new_components
          ELSE The({ IF ~a.ok THEN a
                     ELSE IF ~b.ok THEN b
                     ELSE Ok([existing_threat EXCEPT
                                !.source = Str(PyStr(Get(existing_threat, "source", Str("")))
                                               \o " + "
                                               \o PyStr(Get(threat, "source", Str("")))),
                                !.affected_components =
                                    List(ListOfNames(existing_components.v \cup new_components.v, seed)),
                                !.criticality_score = Num(Max({a.v, b.v}))]) :
                     a \in {float(Get(existing_threat, "criticality_score", Num(0)))},
                     b \in {float(Get(threat, "criticality_score", Num(0)))} }) :
          existing_components \in {SetOfList(Get(existing_threat, "affected_components", List(<<>>)))},
          new_components \in {SetOfList(Get(threat, "affected_components", List(<<>>)))} })

RECURSIVE DeduplicateLoop(_, _, _, _)
\* lines 577-599: the loop over threats; seen_scenarios[i] is the key under
\* which unique_threats[i] is kept (the dict holds the record itself)
DeduplicateLoop(threats, unique_threats, seen_scenarios, seed) ==
    IF threats = <<>> THEN Ok(unique_threats)
    ELSE IF ~Head(threats).isdict THEN Raise("AttributeError")
    ELSE IF Get(Head(threats), "Scenario", Str("")).t # "str" THEN Raise("AttributeError")
    ELSE The({
        IF \A i \in 1..Len(seen_scenarios) : seen_scenarios[i] # key
        THEN DeduplicateLoop(Tail(threats), Append(unique_threats, Head(threats)),
                             Append(seen_scenarios, key), seed)
        ELSE The({
            IF ~merged.ok THEN merged
            ELSE DeduplicateLoop(Tail(threats),
                                 [unique_threats EXCEPT ![i] = merged.v],
                                 seen_scenarios, seed) :
            i \in {CHOOSE k \in 1..Len(seen_scenarios) : seen_scenarios[k] = key},
            merged \in {MergeIntoExisting(
                          unique_threats[CHOOSE k \in 1..Len(seen_scenarios) : seen_scenarios[k] = key],
                          Head(threats), seed)} }) :
        key \in {ScenarioKey(Get(Head(threats), "Scenario", Str("")).l)} })

\* _deduplicate_threats(threats), under the hash seed of the process
_deduplicate_threats(threats, seed) == DeduplicateLoop(threats, <<>>, <<>>, seed)

\* SecurityAgent._generate_risk_summary(threats), agent.py 281-311: the
\* counts by severity and by category; score >= 9 on a score that is no
\* number raises
SecurityAgent_generate_risk_summary(threats) ==
    IF \E i \in 1..Len(threats) : ~threats[i].isdict THEN Raise("AttributeError")
    ELSE IF \E i \in 1..Len(threats) : Get(threats[i], "criticality_score", Num(500)).t # "num"
    THEN Raise("TypeError")
    ELSE Ok([total_threats |-> Len(threats),
             severity_distribution |->
                [critical |-> Cardinality({i \in 1..Len(threats) :
                      Get(threats[i], "criticality_score", Num(500)).n >= 900}),
                 high |-> Cardinality({i \in 1..Len(threats) :
                      /\ Get(threats[i], "criticality_score", Num(500)).n < 900
                      /\ Get(threats[i], "criticality_score", Num(500)).n >= 700}),
                 medium |-> Cardinality({i \in 1..Len(threats) :
                      /\ Get(threats[i], "criticality_score", Num(500)).n < 700
                      /\ Get(threats[i], "criticality_score", Num(500)).n >= 400}),
                 low |-> Cardinality({i \in 1..Len(threats) :
                      Get(threats[i], "criticality_score", Num(500)).n < 400})],
             threat_categories |->
                [category \in {Get(threats[i], "Threat_Type", Str("Unknown")) :
                                  i \in 1..Len(threats)} |->
                    Cardinality({i \in 1..Len(threats) :
                        Get(threats[i], "Threat_Type", Str("Unknown")) = category})]])

\* the threats these functions are called on: three wordings of one
\* scenario, two of another, and records with a null scenario, a score that
\* is no number, a null list
T_sqli ==
    [BlankThreat EXCEPT !.Threat_Type = Str("Tampering"),
                        !.Scenario = Chars(<<"S", "Q", "L", " ", "i", "n", "j", "e", "c", "t", "i", "o", "n">>),
                        !.source = Str("LLM Analysis"),
                        !.criticality_score = Num(600),
                        !.attack_vectors = List(<<"search form">>),
                        !.affected_components = List(<<"SearchDB">>),
                        !.mitigations = List(<<"escape input">>)]

T_sqli_kb ==
    [BlankThreat EXCEPT !.Scenario = Chars(<<"s", "q", "l", "-", "I", "n", "j", "e", "c", "t", "i", "o", "n", "!">>),
                        !.source = Str("Knowledge Base"),
                        !.criticality_score = Num(900),
                        !.attack_vectors = List(<<"public API">>),
                        !.affected_components = List(<<"WebUI">>),
                        !.mitigations = List(<<"prepared statements">>)]

T_sqli_words ==
    [BlankThreat EXCEPT !.Scenario = Chars(<<"i", "n", "j", "e", "c", "t", "i", "o", "n", " ", "S", "Q", "L", " ", "s", "q", "l">>),
                        !.source = Str("LLM Analysis"),
                        !.criticality_score = Num(799)]

T_xss ==
    [BlankThreat EXCEPT !.Scenario = Chars(<<"X", "S", "S">>),
                        !.source = Str("Knowledge Base")]

T_xss_negative ==
    [BlankThreat EXCEPT !.Scenario = Chars(<<"x", "s", "s", ".">>),
                        !.criticality_score = Num(-300)]

T_xss_nulllist ==
    [BlankThreat EXCEPT !.Scenario = Chars(<<"X", "S", "S">>),
                        !.affected_components = None,
                        !.criticality_score = Num(800)]

T_nullscenario ==
    [BlankThreat EXCEPT !.Scenario = None,
                        !.criticality_score = Num(500)]

T_underscore ==
    [BlankThreat EXCEPT !.Scenario = Chars(<<"s", "q", "l", "_", "i", "n", "j", "e", "c", "t", "i", "o", "n">>),
                        !.criticality_score = Chars(<<"8", "/", "1", "0">>)]

SampleThreats ==
    {T_sqli, T_sqli_kb, T_sqli_words, T_xss, T_xss_negative, T_xss_nulllist,
     T_nullscenario, T_underscore}

----------------------------------------------------------------------------
(* The runs: the caller collects one entry per source, compiles, and may
   compile the same arguments again (threat_model.py analyze_with_agents) *)

\* AGENT_PROMPTS, in order (services/agents/prompts.py)
AgentNames ==
    <<"SpoofingExpert", "TamperingExpert", "RepudiationExpert",
      "InformationDisclosureExpert", "DosExpert", "ElevationExpert",
      "ThreatModelCompiler">>

\* the hash seeds a process may run with
HashSeeds == {1, 3}

\* what the knowledge base may hold for the architecture
KBBatches == {<<>>, <<KB_sqli>>}

\* records a caller hands over as they are
ExternalThreats == {R_sql, R_nullaff, NullThreat, R_edge, R_under}

\* the entries that come from the caller, not from an agent: a name and an
\* analysis that is missing, empty, not a mapping, or a mapping of any shape
ExternalEntries ==
    ({"ManualReview"} \X {NoneAnalysis, EmptyDictAnalysis, StrAnalysis, NullThreatsAnalysis})
    \cup ({"ManualReview", "ThreatModelCompiler"} \X {DictAnalysis(<<t>>) : t \in ExternalThreats})

SeqsUpTo(S, n) == UNION {[1..k -> S] : k \in 0..n}

\* the replies that carry the batch (under "threats" or "threat_model"); with
\* no batch also the call that fails and the reply that is not JSON
RepliesOf(batch) ==
    {[answered |-> TRUE, parsed |-> TRUE, threats |-> batch, threat_model |-> <<>>],
     [answered |-> TRUE, parsed |-> TRUE, threats |-> <<>>, threat_model |-> batch]}
    \cup (IF batch # <<>> THEN {}
          ELSE {[answered |-> FALSE, parsed |-> FALSE, threats |-> <<>>, threat_model |-> <<>>],
                [answered |-> TRUE, parsed |-> FALSE, threats |-> <<>>, threat_model |-> <<>>]})

RECURSIVE Used(_, _)
\* the threat records of the run so far
Used(solutions, batches) ==
    IF solutions = <<>> THEN 0
    ELSE LET a == Len(Head(solutions)[2].items)
             b == Len(Head(batches))
         IN  (IF a > b THEN a ELSE b) + Used(Tail(solutions), Tail(batches))

Room == MaxThreats - Used(all_solutions, raw_batches)

Init ==
    /\ hash_seed \in HashSeeds
    /\ arch_analysis \in Graphs
    /\ all_solutions = <<>>
    /\ raw_batches = <<>>
    /\ phase = "collect"
    /\ component_threats = <<>>
    /\ result = [none |-> TRUE]
    /\ prev_result = [none |-> TRUE]
    /\ agent_threats = <<>>
    /\ agent_result = [none |-> TRUE]
    /\ queried = <<>>
    /\ compile_calls = 0

\* threat_model.py 331-344: the next agent is asked and its solution recorded
AgentSolution ==
    /\ phase = "collect"
    /\ Len(all_solutions) < MaxAgents
    /\ \E batch \in SeqsUpTo(LLMThreats, IF Room < MaxBatch THEN Room ELSE MaxBatch) :
       \E kb \in {k \in KBBatches : Len(k) + Len(batch) <= Room} :
       \E response \in RepliesOf(batch) :
          LET agent == AgentNames[Len(all_solutions) + 1]
          IN  /\ all_solutions' = Append(all_solutions, <<agent, get_solution(agent, kb, response)>>)
              /\ raw_batches' = Append(raw_batches, batch)
              /\ queried' = Append(queried, [agent |-> agent,
                                             failed |-> ~response.answered \/ ~response.parsed])
    /\ UNCHANGED <<hash_seed, arch_analysis, phase, component_threats, result, prev_result,
                   agent_threats, agent_result, compile_calls>>

\* an entry the caller adds itself: any name, any analysis
ExternalEntry ==
    /\ phase = "collect"
    /\ Len(all_solutions) < MaxAgents
    /\ \E entry \in {e \in ExternalEntries : Len(e[2].items) <= Room} :
          /\ all_solutions' = Append(all_solutions, entry)
          /\ raw_batches' = Append(raw_batches, entry[2].items)
    /\ UNCHANGED <<hash_seed, arch_analysis, phase, component_threats, result, prev_result,
                   agent_threats, agent_result, queried, compile_calls>>

\* one call of compile_threat_model(all_solutions, arch_analysis)
CompileCall ==
    /\ component_threats' = _extract_component_threats(all_solutions)
    /\ result' = compile_threat_model(all_solutions, arch_analysis, hash_seed)
    /\ compile_calls' = compile_calls + 1

\* a compiler that writes the name of the source into the records it reads
Compile_tagging ==
    /\ phase = "collect"
    /\ CompileCall
    /\ phase' = "compiled"
    /\ all_solutions' =
          [i \in 1..Len(all_solutions) |->
             <<all_solutions[i][1],
               [all_solutions[i][2] EXCEPT !.items =
                  [k \in 1..Len(@) |-> IF @[k].isdict
                                       THEN [@[k] EXCEPT !.source = Str(all_solutions[i][1])]
                                       ELSE @[k]]]>>]
    /\ UNCHANGED <<hash_seed, arch_analysis, raw_batches, prev_result,
                   agent_threats, agent_result, queried>>

\* threat_model.py 355: the entries collected are compiled
Compile ==
    /\ phase = "collect"
    /\ CompileCall
    /\ phase' = "compiled"
    /\ UNCHANGED <<hash_seed, arch_analysis, all_solutions, raw_batches, prev_result,
                   agent_threats, agent_result, queried>>

\* the same compiler is called again with the same arguments
Recompile ==
    /\ phase = "compiled"
    /\ CompileCall
    /\ prev_result' = result
    /\ phase' = "recompiled"
    /\ UNCHANGED <<hash_seed, arch_analysis, all_solutions, raw_batches,
                   agent_threats, agent_result, queried>>

\* a new analysis: another architecture, no entry yet
NewRun ==
    /\ phase \in {"compiled", "recompiled"}
    /\ arch_analysis' \in Graphs
    /\ all_solutions' = <<>>
    /\ raw_batches' = <<>>
    /\ phase' = "collect"
    /\ component_threats' = <<>>
    /\ result' = [none |-> TRUE]
    /\ prev_result' = [none |-> TRUE]
    /\ queried' = <<>>
    /\ compile_calls' = 0
    /\ UNCHANGED <<hash_seed, agent_threats, agent_result>>

Next == AgentSolution \/ ExternalEntry \/ Compile \/ Recompile \/ NewRun

Spec == Init /\ [][Next]_vars

----------------------------------------------------------------------------
(* The functions of the agent that take a list of threats, each on its own: a
   list is put together and one of them is called on it once *)

NotCalled == [none |-> TRUE]

AgentInit ==
    /\ hash_seed \in HashSeeds
    /\ arch_analysis = NoGraph
    /\ all_solutions = <<>>
    /\ raw_batches = <<>>
    /\ phase = "collect"
    /\ component_threats = <<>>
    /\ result = [none |-> TRUE]
    /\ prev_result = [none |-> TRUE]
    /\ agent_threats = <<>>
    /\ agent_result = NotCalled
    /\ queried = <<>>
    /\ compile_calls = 0

\* one more threat in the list a function will be called on
AddThreat ==
    /\ agent_result = NotCalled
    /\ Len(agent_threats) < MaxMerged
    /\ \E threat \in SampleThreats : agent_threats' = Append(agent_threats, threat)
    /\ UNCHANGED <<agent_result, hash_seed, arch_analysis, all_solutions, raw_batches,
                   phase, component_threats, result, prev_result, queried, compile_calls>>

\* agent.py 572-601: _deduplicate_threats(threats) returns or raises
Deduplicate ==
    /\ agent_result = NotCalled
    /\ agent_result' = _deduplicate_threats(agent_threats, hash_seed)
    /\ UNCHANGED <<agent_threats, hash_seed, arch_analysis, all_solutions, raw_batches,
                   phase, component_threats, result, prev_result, queried, compile_calls>>

\* agent.py 281-311: _generate_risk_summary(threats) returns or raises
Summarise ==
    /\ agent_result = NotCalled
    /\ agent_result' = [summary |-> SecurityAgent_generate_risk_summary(agent_threats)]
    /\ UNCHANGED <<agent_threats, hash_seed, arch_analysis, all_solutions, raw_batches,
                   phase, component_threats, result, prev_result, queried, compile_calls>>

AgentNext == AddThreat \/ Deduplicate \/ Summarise

AgentSpec == AgentInit /\ [][AgentNext]_vars

----------------------------------------------------------------------------
(* One source with a long report: the caller hands compile_threat_model a
   single entry of up to MaxReported threat records *)

\* the records of the long report
ReviewThreats == {R_sql, R_edge, R_under, R_twice, R_nullname}

\* the architectures of the long report
ReviewGraphs == {NoGraph, PairGraph}

ReviewInit ==
    /\ hash_seed = 1
    /\ arch_analysis \in ReviewGraphs
    /\ all_solutions = <<<<"ManualReview", DictAnalysis(<<>>)>>>>
    /\ raw_batches = <<<<>>>>
    /\ phase = "collect"
    /\ component_threats = <<>>
    /\ result = [none |-> TRUE]
    /\ prev_result = [none |-> TRUE]
    /\ agent_threats = <<>>
    /\ agent_result = [none |-> TRUE]
    /\ queried = <<>>
    /\ compile_calls = 0

\* the source adds one record to its analysis["threats"]
ReviewThreat ==
    /\ phase = "collect"
    /\ Len(all_solutions[1][2].items) < MaxReported
    /\ \E threat \in ReviewThreats :
          /\ all_solutions' = <<<<"ManualReview",
                                  DictAnalysis(Append(all_solutions[1][2].items, threat))>>>>
          /\ raw_batches' = <<Append(raw_batches[1], threat)>>
    /\ UNCHANGED <<hash_seed, arch_analysis, phase, component_threats, result, prev_result,
                   agent_threats, agent_result, queried, compile_calls>>

ReviewNext == ReviewThreat \/ Compile

ReviewSpec == ReviewInit /\ [][ReviewNext]_vars

----------------------------------------------------------------------------
(* analyze_with_agents (threat_model.py 317-365): the agents of the factory
   are asked one after the other and their solutions compiled *)

\* what the LLM reply of one agent may report
AnalyzeBatches == {<<>>, <<R_auth>>}

\* st.session_state.get('architecture_analysis', {})
AnalyzeGraphs == {EmptyGraph, HubGraph}

AnalyzeInit ==
    /\ hash_seed = 1
    /\ arch_analysis \in AnalyzeGraphs
    /\ all_solutions = <<>>
    /\ raw_batches = <<>>
    /\ phase = "collect"
    /\ component_threats = <<>>
    /\ result = [none |-> TRUE]
    /\ prev_result = [none |-> TRUE]
    /\ agent_threats = <<>>
    /\ agent_result = [none |-> TRUE]
    /\ queried = <<>>
    /\ compile_calls = 0

\* lines 331-344: one pass of the loop over the agents.  The knowledge base
\* is read for the components of the architecture (agent.py 451-467); the
\* agent called ThreatModelCompiler sends no query (agent.py 48-49).
AskAgent ==
    /\ phase = "collect"
    /\ Len(all_solutions) < Len(AgentNames)
    /\ \E batch \in AnalyzeBatches :
       \E kb \in (IF arch_analysis.components = <<>> THEN {<<>>} ELSE KBBatches) :
       \E response \in RepliesOf(batch) :
          LET agent == AgentNames[Len(all_solutions) + 1]
          IN  /\ agent = "ThreatModelCompiler" => (batch = <<>> /\ kb = <<>> /\ response.parsed)
              /\ all_solutions' = Append(all_solutions, <<agent, get_solution(agent, kb, response)>>)
              /\ raw_batches' = Append(raw_batches, batch)
              /\ queried' = Append(queried, [agent |-> agent,
                                             failed |-> ~response.answered \/ ~response.parsed])
    /\ UNCHANGED <<hash_seed, arch_analysis, phase, component_threats, result, prev_result,
                   agent_threats, agent_result, compile_calls>>

\* a loop that compiles as soon as one agent has answered
CompileAll_early ==
    /\ all_solutions # <<>>
    /\ Compile

\* lines 349-355: after the loop, the one call of compile_threat_model
CompileAll ==
    /\ Len(all_solutions) = Len(AgentNames)
    /\ Compile

AnalyzeNext == AskAgent \/ CompileAll

\* the call of compile_threat_model as the phase shows it
CompileStep ==
    /\ phase = "collect"
    /\ Len(all_solutions) = Len(AgentNames)
    /\ phase' = "compiled"

\* the function is sequential code: each pass of the loop is taken, and so
\* is the call after it (compile_threat_model returns on every input)
AnalyzeSpec ==
    AnalyzeInit /\ [][AnalyzeNext]_vars /\ WF_vars(AskAgent) /\ WF_phase(CompileStep)

----------------------------------------------------------------------------
(* Properties *)

Compiled == phase \in {"compiled", "recompiled"}

ModelKeys ==
    {"threat_model", "component_mapping", "component_risk_levels",
     "critical_paths", "improvement_suggestions", "risk_summary"}

\* the entries _extract_component_threats does not skip
Read(i) ==
    /\ all_solutions[i][2].kind \notin {"none", "emptydict"}
    /\ all_solutions[i][1] # "ThreatModelCompiler"

RECURSIVE RecordsRead(_)
\* the threat records of the entries that are not skipped, in reading order
RecordsRead(solutions) ==
    IF solutions = <<>> THEN <<>>
    ELSE (IF Head(solutions)[2].kind \notin {"none", "emptydict"}
             /\ Head(solutions)[1] # "ThreatModelCompiler"
          THEN Head(solutions)[2].items ELSE <<>>)
         \o RecordsRead(Tail(solutions))

C2_AlwaysAModel == Compiled => DOMAIN result = ModelKeys

\* a call whose try block raised (a null affected_components, for one) and
\* that returned the empty model
C2_Witness ==
    /\ phase = "compiled"
    /\ ~CompileBody(all_solutions, arch_analysis, hash_seed).ok
    /\ result = _get_empty_model
    /\ arch_analysis.kind = "none"
    /\ \E i \in 1..Len(all_solutions) : all_solutions[i][2].kind = "none"

\* the threat ids in the order they are given out, as the ids are written
IdTable ==
    <<"THREAT-001", "THREAT-002", "THREAT-003", "THREAT-004", "THREAT-005",
      "THREAT-006", "THREAT-007", "THREAT-008">>

IdIndex(id) == CHOOSE k \in 1..Len(IdTable) : IdTable[k] = id

\* the threat of the compiled model that was built from the raw record t
Appears(t) ==
    \E j \in 1..Len(result.threat_model) :
        /\ result.threat_model[j].Scenario = Get(t, "Scenario", Str(""))
        /\ result.threat_model[j].component_name = Get(t, "component_name", Str("System"))

\* a raw record with a scenario and every field of the type the pipeline reads
WellFormedThreat(t) ==
    /\ t.isdict
    /\ Get(t, "Scenario", Str("")).t = "str"
    /\ Get(t, "Scenario", Str("")) # Str("")
    /\ float(Get(t, "risk_score", Num(500))).ok
    /\ Get(t, "Threat_Type", Str("Unknown")).t = "str"
    /\ Get(t, "component_name", Str("System")).t = "str"
    /\ Get(t, "component_type", Str("Unknown")).t = "str"
    /\ Get(t, "affected_components", List(<<>>)).t = "list"

\* an entry that is read and holds well-formed records only
WellFormedEntry(i) ==
    /\ all_solutions[i][1] # "ThreatModelCompiler"
    /\ all_solutions[i][2].kind = "dict"
    /\ all_solutions[i][2].threats.t # "none"
    /\ \A k \in 1..Len(all_solutions[i][2].items) :
          WellFormedThreat(all_solutions[i][2].items[k])

\* C3: an entry whose analysis is missing, empty, failed or malformed, or
\* that holds a malformed record, contributes no threat and blocks no other
\* entry: every threat of every well-formed entry is in the compiled
\* threat_model.
C3_FailedEntryBlocksNoOther ==
    Compiled =>
        \A i \in 1..Len(all_solutions) :
            WellFormedEntry(i) =>
                \A k \in 1..Len(all_solutions[i][2].items) :
                    Appears(all_solutions[i][2].items[k])

\* C4: a raw threat whose scenario is the empty string or absent is never in
\* the compiled threat_model.
C4_NoEmptyScenario ==
    Compiled =>
        \A j \in 1..Len(result.threat_model) :
            result.threat_model[j].Scenario # Str("")

\* the entries an agent produced (the caller's own entries have other names)
AgentEntry(i) == \E n \in 1..6 : all_solutions[i][1] = AgentNames[n]

\* the base score the pipeline is to give a reported risk_score: the parsed
\* value, 5.0 when there is none or it does not parse
ExpectedBaseScore(x) ==
    IF x.t \in {"absent", "none"} THEN 500
    ELSE The({IF r.ok THEN r.v ELSE 500 : r \in {NormalizeScore(x)}})

\* C5: through the agent's normalization and the compiler's extraction, a
\* risk_score that fails to parse (a zero denominator included) gives its
\* threat base_score 5.0, and every threat of the batch is extracted with its
\* own value.
C5_ParseFailureDefaultsToFive ==
    (Compiled /\ \A i \in 1..Len(all_solutions) : AgentEntry(i)) =>
        \A i \in 1..Len(raw_batches) :
            \A k \in 1..Len(raw_batches[i]) :
                \E c \in 1..Len(component_threats) :
                    /\ component_threats[c].scenario = Get(raw_batches[i][k], "Scenario", Str(""))
                    /\ component_threats[c].component_name
                          = Get(raw_batches[i][k], "component_name", Str("System"))
                    /\ component_threats[c].base_score
                          = ExpectedBaseScore(raw_batches[i][k].risk_score)

\* C6: the base_score of every normalized threat lies in [0, 10], whatever
\* risk_score the source reported.
C6_BaseScoreInRange ==
    Compiled =>
        \A c \in 1..Len(component_threats) :
            /\ component_threats[c].base_score >= 0
            /\ component_threats[c].base_score <= 1000

\* C7: within one run the ids are pairwise distinct and are THREAT-001,
\* THREAT-002, ... with no gap, in the order the threats are read (entries in
\* list order, threats of an entry in list order); a skipped entry (empty
\* analysis, or named ThreatModelCompiler) takes no id.
C7_IdsConsecutiveInReadingOrder ==
    Compiled =>
        /\ Len(component_threats) \in {0, Len(RecordsRead(all_solutions))}
        /\ \A k \in 1..Len(component_threats) :
              /\ component_threats[k].threat_id = IdTable[k]
              /\ component_threats[k].scenario
                    = Get(RecordsRead(all_solutions)[k], "Scenario", Str(""))
        /\ \A j, k \in 1..Len(result.threat_model) :
              j # k => result.threat_model[j].threat_id # result.threat_model[k].threat_id
        /\ {result.threat_model[j].threat_id : j \in 1..Len(result.threat_model)}
              = {IdTable[k] : k \in 1..Len(result.threat_model)}

\* a run whose first entry is skipped though it holds a threat, and whose
\* second entry gave the two threats of the model
C7_Witness ==
    /\ Compiled
    /\ Len(all_solutions) = 2
    /\ ~Read(1)
    /\ Len(all_solutions[1][2].items) = 1
    /\ Read(2)
    /\ Len(all_solutions[2][2].items) = 2
    /\ Len(component_threats) = 2
    /\ Len(result.threat_model) = 2

\* C8: the threat_model of every returned model is in descending order of
\* criticality_score, threats of equal score in the order of their ids.
C8_SortedDescending ==
    Compiled =>
        \A j, k \in 1..Len(result.threat_model) :
            j < k =>
                \/ result.threat_model[j].criticality_score
                      > result.threat_model[k].criticality_score
                \/ /\ result.threat_model[j].criticality_score
                         = result.threat_model[k].criticality_score
                   /\ IdIndex(result.threat_model[j].threat_id)
                         < IdIndex(result.threat_model[k].threat_id)

\* the base_score of the threat with this id
BaseScoreOf(id) == component_threats[IdIndex(id)].base_score

\* C9: every threat of the compiled threat_model carries the score the scorer
\* computes, base_score x component_weight x connectivity x sensitivity
\* rounded to 2 decimals; none carries the initial placeholder.
C9_ScoredByFormula ==
    Compiled =>
        \A j \in 1..Len(result.threat_model) :
            /\ _get_component_weight(result.threat_model[j].component_type).ok
            /\ result.threat_model[j].criticality_score =
                  _compute_final_score(
                      BaseScoreOf(result.threat_model[j].threat_id),
                      _get_component_weight(result.threat_model[j].component_type).v,
                      _calculate_connectivity_score(result.threat_model[j].component_name,
                                                    arch_analysis),
                      _assess_data_sensitivity(result.threat_model[j].component_name,
                                               arch_analysis))

\* C10: with an empty architecture graph the connectivity and the sensitivity
\* factor are 1.0: the criticality_score of every scored threat is
\* base_score x component_weight.
C10_EmptyGraphNeutral ==
    (/\ Compiled
     /\ arch_analysis = EmptyGraph
     /\ \A j \in 1..Len(result.threat_model) :
           _get_component_weight(result.threat_model[j].component_type).ok) =>
        \A j \in 1..Len(result.threat_model) :
            result.threat_model[j].criticality_score =
                Round2(BaseScoreOf(result.threat_model[j].threat_id)
                       * _get_component_weight(result.threat_model[j].component_type).v
                       * 10 * 10)

\* the scenario texts, the empty one aside, the entry i reports, when the
\* compiler reads the entry
ScenariosOf(i) ==
    IF ~Read(i) THEN {}
    ELSE {all_solutions[i][2].items[n].Scenario :
             n \in {m \in 1..Len(all_solutions[i][2].items) :
                       /\ all_solutions[i][2].items[m].isdict
                       /\ all_solutions[i][2].items[m].Scenario.t = "str"
                       /\ all_solutions[i][2].items[m].Scenario.s # ""}}

\* C11: the compiled threat model is deduplicated: when two sources report
\* scenarios with the same normalized word key, threat_model holds one threat
\* for that key.  Two scenarios of the same text have the same key, so a
\* scenario text that two entries report is the scenario of at most one threat
\* of threat_model.
C11_CompiledModelDeduplicated ==
    Compiled =>
        \A i1, i2 \in 1..Len(all_solutions) :
            i1 # i2 =>
                \A scenario \in ScenariosOf(i1) \cap ScenariosOf(i2) :
                    \A j, k \in 1..Len(result.threat_model) :
                        (/\ result.threat_model[j].Scenario = scenario
                         /\ result.threat_model[k].Scenario = scenario) => j = k

\* _deduplicate_threats was called and returned a list
Returned == "ok" \in DOMAIN agent_result /\ agent_result.ok

\* the places of the input list whose scenario has the words of scenario
SharingKey(scenario) ==
    {n \in 1..Len(agent_threats) :
        WordSet(agent_threats[n].Scenario.l) = WordSet(scenario.l)}

\* the criticality score a record brings to a merge, 0 when it has none
ScoreBrought(threat) ==
    IF threat.criticality_score.t = "absent" THEN 0 ELSE threat.criticality_score.n

\* the first of a set of places
Min(S) == CHOOSE x \in S : \A y \in S : x <= y

\* C12: for any list given to _deduplicate_threats, the criticality_score of
\* each merged threat of the output is the maximum of the criticality scores
\* of the input threats that share its key (a record without a score counts
\* as 0), never their average, their sum or the score seen last.
C12_MergedScoreIsMaximum ==
    Returned =>
        \A j \in 1..Len(agent_result.v) :
            Cardinality(SharingKey(agent_result.v[j].Scenario)) >= 2 =>
                agent_result.v[j].criticality_score =
                    Num(Max({ScoreBrought(agent_threats[n]) :
                                n \in SharingKey(agent_result.v[j].Scenario)}))

\* three wordings of one scenario merged into one threat, the largest score
\* reported second
C12_Witness ==
    /\ Returned
    /\ Len(agent_threats) = 3
    /\ Len(agent_result.v) = 1
    /\ agent_threats[1].criticality_score = Num(600)
    /\ agent_threats[2].criticality_score = Num(900)
    /\ agent_threats[3].criticality_score = Num(799)
    /\ agent_result.v[1].criticality_score = Num(900)

\* the names in a list field of a record, none when the record has no such list
NamesIn(field) == IF field.t = "list" THEN {field.l[i] : i \in 1..Len(field.l)} ELSE {}

\* C13: when _deduplicate_threats merges threats, the surviving record is the
\* one seen first, and its attack_vectors, its affected_components and its
\* mitigations are each the union of those fields over all the threats merged
\* into it.
C13_MergedFieldsAreUnions ==
    Returned =>
        \A j \in 1..Len(agent_result.v) :
            /\ agent_result.v[j].Scenario =
                  agent_threats[Min(SharingKey(agent_result.v[j].Scenario))].Scenario
            /\ NamesIn(agent_result.v[j].attack_vectors) =
                  UNION {NamesIn(agent_threats[n].attack_vectors) :
                            n \in SharingKey(agent_result.v[j].Scenario)}
            /\ NamesIn(agent_result.v[j].affected_components) =
                  UNION {NamesIn(agent_threats[n].affected_components) :
                            n \in SharingKey(agent_result.v[j].Scenario)}
            /\ NamesIn(agent_result.v[j].mitigations) =
                  UNION {NamesIn(agent_threats[n].mitigations) :
                            n \in SharingKey(agent_result.v[j].Scenario)}

\* C14: the output of _deduplicate_threats holds exactly one threat for each
\* word set the lower-case scenarios of the input have, and the threats stand
\* in the order in which their word sets first occur in the input.
C14_OnePerKeyInFirstOccurrenceOrder ==
    Returned =>
        /\ \A n \in 1..Len(agent_threats) :
              Cardinality({j \in 1..Len(agent_result.v) :
                              WordSet(agent_result.v[j].Scenario.l)
                                 = WordSet(agent_threats[n].Scenario.l)}) = 1
        /\ \A j \in 1..Len(agent_result.v) : SharingKey(agent_result.v[j].Scenario) # {}
        /\ \A j, k \in 1..Len(agent_result.v) :
              j < k => Min(SharingKey(agent_result.v[j].Scenario))
                          < Min(SharingKey(agent_result.v[k].Scenario))

\* two threats out of three: the first and the third differ in case and
\* punctuation only and are merged, the second stands after them
C14_Witness ==
    /\ Returned
    /\ Len(agent_threats) = 3
    /\ Len(agent_result.v) = 2
    /\ agent_threats[1].Scenario # agent_threats[3].Scenario
    /\ WordSet(agent_threats[1].Scenario.l) = WordSet(agent_threats[3].Scenario.l)
    /\ agent_result.v[1].Scenario = agent_threats[1].Scenario
    /\ agent_result.v[2].Scenario = agent_threats[2].Scenario

\* _generate_risk_summary of the agent was called and returned a summary
Summarised == "summary" \in DOMAIN agent_result /\ agent_result.summary.ok

\* the score _generate_risk_summary of the agent classifies
ScoreClassified(threat) == Get(threat, "criticality_score", Num(500)).n

\* critical >= 8.0, high in [6.0, 8.0), medium in [4.0, 6.0), low < 4.0
Band(score) ==
    IF score >= 800 THEN "CRITICAL"
    ELSE IF score >= 600 THEN "HIGH"
    ELSE IF score >= 400 THEN "MEDIUM"
    ELSE "LOW"

\* the threats of the list whose score is in the band
InBand(band) ==
    Cardinality({n \in 1..Len(agent_threats) : Band(ScoreClassified(agent_threats[n])) = band})

\* C15: every place that classifies a score into a band uses the same
\* boundaries, critical >= 8.0, high >= 6.0, medium >= 4.0, low below (8.00 is
\* critical, 7.99 is high): the criticality level of the compiler gives each
\* score its band, and the severity counts of the agent's risk summary count
\* the threats of each band.
C15_OneSetOfBands ==
    Summarised =>
        /\ \A n \in 1..Len(agent_threats) :
              _get_criticality_level(ScoreClassified(agent_threats[n]))
                 = Band(ScoreClassified(agent_threats[n]))
        /\ agent_result.summary.v.severity_distribution =
              [critical |-> InBand("CRITICAL"), high |-> InBand("HIGH"),
               medium |-> InBand("MEDIUM"), low |-> InBand("LOW")]

\* the components a threat of threat_model names: its own and the affected ones
ComponentsNamed(threat) ==
    {threat.component_name}
    \cup (IF threat.affected_components.t = "list"
          THEN {Str(threat.affected_components.l[i]) :
                   i \in 1..Len(threat.affected_components.l)}
          ELSE {})

\* C16: for every component that a threat names as its own or among its
\* affected_components, component_risk_levels has an entry, and the level of
\* the entry is the band of the largest criticality_score among all the
\* threats that name the component either way.
C16_EveryNamedComponentHasItsLevel ==
    Compiled =>
        \A j \in 1..Len(result.threat_model) :
            \A component \in ComponentsNamed(result.threat_model[j]) :
                \E k \in 1..Len(result.component_risk_levels) :
                    /\ result.component_risk_levels[k].component = component
                    /\ _get_criticality_level(result.component_risk_levels[k].highest_criticality)
                          = _get_criticality_level(
                               Max({result.threat_model[i].criticality_score :
                                      i \in {n \in 1..Len(result.threat_model) :
                                               component \in ComponentsNamed(result.threat_model[n])}}))

\* the largest criticality_score among the threats of threat_model whose own
\* component is an end of the relationship, 0.0 when there is none
PathMax(rel) ==
    Max({0} \cup {result.threat_model[j].criticality_score :
                     j \in {n \in 1..Len(result.threat_model) :
                               result.threat_model[n].component_name
                                  \in {Str(rel.source), Str(rel.target)}}})

\* the relationships of the graph whose PathMax is 7.0 or more
PathsAtRisk == SelectSeq(arch_analysis.relationships, LAMBDA rel : PathMax(rel) >= 700)

\* C17: critical_paths holds a finding for a relationship (source, target)
\* exactly when the largest criticality_score of the threats whose
\* component_name is source or target (0.0 when none) is 7.0 or more: 7.00 is
\* reported, 6.99 is not, and a threat that names an end only among its
\* affected_components does not count.
C17_CriticalPathsAtSeven ==
    Compiled =>
        /\ Len(result.critical_paths) = Len(PathsAtRisk)
        /\ \A k \in 1..Len(PathsAtRisk) :
              result.critical_paths[k].path = <<PathsAtRisk[k].source, PathsAtRisk[k].target>>

\* under the hub graph WebUI carries a threat of exactly 7.00 and SearchDB one
\* of 6.99 that names ApiGateway as affected: the two relationships between
\* WebUI and AuthService are reported, the relationships of SearchDB and of
\* ApiGateway are not
C17_Witness ==
    /\ Compiled
    /\ arch_analysis = HubGraph
    /\ Len(result.threat_model) = 2
    /\ result.threat_model[1].component_name = Str("WebUI")
    /\ result.threat_model[1].criticality_score = 700
    /\ result.threat_model[2].component_name = Str("SearchDB")
    /\ result.threat_model[2].criticality_score = 699
    /\ Len(result.critical_paths) = 2
    /\ result.critical_paths[1].path = <<"WebUI", "AuthService">>
    /\ result.critical_paths[2].path = <<"AuthService", "WebUI">>

\* the six STRIDE categories
StrideCategories ==
    {"Spoofing", "Tampering", "Repudiation", "Information Disclosure",
     "Denial of Service", "Elevation of Privilege"}

\* C18: the threat type of every threat of the compiled threat_model is one of
\* the six STRIDE categories or "Unknown"; a type that is none of them is
\* replaced by "Unknown", and the threat is kept.
C18_ThreatTypeIsStrideOrUnknown ==
    Compiled =>
        \A j \in 1..Len(result.threat_model) :
            /\ result.threat_model[j].Threat_Type.t = "str"
            /\ result.threat_model[j].Threat_Type.s \in StrideCategories \cup {"Unknown"}

\* one agent reported the session token threat without a component type, and
\* nothing else, for the hub graph, and the entry was compiled
EndToEndRun ==
    /\ Compiled
    /\ arch_analysis = HubGraph
    /\ raw_batches = <<<<R_token>>>>
    /\ Len(all_solutions) = 1
    /\ all_solutions[1][1] = "SpoofingExpert"
    /\ Len(all_solutions[1][2].items) = 1

\* C19: one source reporting Spoofing on AuthService, "Attacker forges a
\* session token", risk_score "8/10", with a graph in which AuthService has
\* three distinct neighbours and a description naming credentials, yields one
\* threat with base_score 8.0, a component weight, a connectivity factor and a
\* sensitivity factor above 1.0, a criticality_score above 8.0 and the band
\* critical.
C19_EndToEndScenario ==
    EndToEndRun =>
        /\ Len(result.threat_model) = 1
        /\ Len(component_threats) = 1
        /\ component_threats[1].base_score = 800
        /\ _get_component_weight(result.threat_model[1].component_type).ok
        /\ _get_component_weight(result.threat_model[1].component_type).v > 10
        /\ _calculate_connectivity_score(result.threat_model[1].component_name,
                                         arch_analysis) > 10
        /\ _assess_data_sensitivity(result.threat_model[1].component_name,
                                    arch_analysis) > 10
        /\ result.threat_model[1].criticality_score > 800
        /\ result.threat_model[1].criticality_level = "CRITICAL"

\* the entries under other source names, every threat record with the source
\* tag given; nothing else differs
Retagged(solutions, names, tag) ==
    [i \in 1..Len(solutions) |->
        <<names[i],
          [solutions[i][2] EXCEPT !.items =
              [n \in 1..Len(solutions[i][2].items) |->
                  IF solutions[i][2].items[n].isdict
                  THEN [solutions[i][2].items[n] EXCEPT !.source = tag]
                  ELSE solutions[i][2].items[n]]]>>]

\* C20: the source of a threat is never used for scoring or selection: a run
\* of compile_threat_model whose entries differ from those compiled only in
\* the source tags of the threats and in the names of the sources (the name
\* "ThreatModelCompiler" among them) returns the same threats, with the same
\* ids and criticality scores, in the same order.
C20_SourceNeverSelects ==
    Compiled =>
        \A names \in [1..Len(all_solutions) -> {"ManualReview", "ThreatModelCompiler"}] :
            \A tag \in {Str("Knowledge Base"), Absent} :
                compile_threat_model(Retagged(all_solutions, names, tag),
                                     arch_analysis, hash_seed).threat_model
                   = result.threat_model

\* the names the relationships of a graph join
EndsOf(graph) ==
    {graph.relationships[i].source : i \in 1..Len(graph.relationships)}
    \cup {graph.relationships[i].target : i \in 1..Len(graph.relationships)}

\* the distinct components a relationship of the graph joins to the component,
\* in either direction
Neighbours(name, graph) ==
    {other \in EndsOf(graph) :
        \E i \in 1..Len(graph.relationships) :
            \/ /\ graph.relationships[i].source = name
               /\ graph.relationships[i].target = other
            \/ /\ graph.relationships[i].target = name
               /\ graph.relationships[i].source = other}

\* the components the threats of threat_model belong to
ComponentsScored ==
    {result.threat_model[j].component_name.s :
        j \in {n \in 1..Len(result.threat_model) :
                  result.threat_model[n].component_name.t = "str"}}

Outranks(u, t) ==
    \/ u.criticality_score > t.criticality_score
    \/ /\ u.criticality_score = t.criticality_score
       /\ IdIndex(u.threat_id) < IdIndex(t.threat_id)

\* the place of the j-th threat of threat_model among all of them
RankOf(j) ==
    1 + Cardinality({i \in 1..Len(result.threat_model) :
                       Outranks(result.threat_model[i], result.threat_model[j])})

\* what highest_risks reports of a threat
RiskEntry(t) ==
    [component |-> t.component_name, score |-> t.criticality_score,
     threat_type |-> t.Threat_Type]

NothingFromQuery(i) ==
    /\ all_solutions[i][2].kind = "dict"
    /\ \A k \in 1..Len(all_solutions[i][2].items) :
          all_solutions[i][2].items[k].source # Str("LLM Analysis")

\* every agent so far was asked once, in the order of AGENT_PROMPTS, and its
\* solution recorded once under its name
AskedInOrder ==
    /\ Len(queried) <= Len(AgentNames)
    /\ Len(all_solutions) = Len(queried)
    /\ \A i \in 1..Len(queried) :
          /\ queried[i].agent = AgentNames[i]
          /\ all_solutions[i][1] = AgentNames[i]

NamedByThreat(j) ==
    {result.threat_model[j].component_name}
    \cup {Str(result.threat_model[j].affected_components.l[k]) :
            k \in 1..Len(result.threat_model[j].affected_components.l)}

\* the ids component_mapping lists under its i-th key
IdsListed(i) ==
    {result.component_mapping[i].threat_ids[k] :
       k \in 1..Len(result.component_mapping[i].threat_ids)}

\* C25: in every compiled model component_mapping is consistent with
\* threat_model: its keys are exactly the components named as primary or
\* affected by some threat, every threat id of threat_model is listed under
\* its primary component and under each of its affected components, and
\* every id listed is the id of a threat of threat_model.
C25_MappingConsistent ==
    Compiled =>
        /\ {result.component_mapping[i].component : i \in 1..Len(result.component_mapping)}
              = UNION {NamedByThreat(j) : j \in 1..Len(result.threat_model)}
        /\ \A i1, i2 \in 1..Len(result.component_mapping) :
              result.component_mapping[i1].component = result.component_mapping[i2].component
                 => i1 = i2
        /\ \A j \in 1..Len(result.threat_model) :
              \A c \in NamedByThreat(j) :
                 \E i \in 1..Len(result.component_mapping) :
                    /\ result.component_mapping[i].component = c
                    /\ result.threat_model[j].threat_id \in IdsListed(i)
        /\ \A i \in 1..Len(result.component_mapping) :
              \A id \in IdsListed(i) :
                 \E j \in 1..Len(result.threat_model) :
                    /\ result.threat_model[j].threat_id = id
                    /\ result.component_mapping[i].component \in NamedByThreat(j)

\* a model of several threats with a component that is named as affected
\* only and a component that two different threats name
C25_Witness ==
    /\ Compiled
    /\ Len(result.threat_model) >= 3
    /\ \E i \in 1..Len(result.component_mapping) :
          /\ result.component_mapping[i].component = Str("AuthService")
          /\ \A j \in 1..Len(result.threat_model) :
                result.threat_model[j].component_name # Str("AuthService")
    /\ \E i \in 1..Len(result.component_mapping) :
          /\ result.component_mapping[i].component = Str("SearchDB")
          /\ Cardinality(IdsListed(i)) >= 2

\* the threat_count risk_summary.most_affected_components reports for the
\* component c (none when c has no entry there)
ThreatCounts(c) ==
    {result.risk_summary.most_affected_components[k].threat_count :
       k \in {k \in 1..Len(result.risk_summary.most_affected_components) :
                result.risk_summary.most_affected_components[k].component = c}}

\* C26: for every component c of a compiled model a threat id appears at most
\* once in component_mapping[c], so that len(component_mapping[c]) equals the
\* threat_count reported for c in risk_summary.most_affected_components, also
\* when a threat lists its primary component again in affected_components or
\* lists the same affected component twice.
C26_MappingListsEachThreatOnce ==
    (Compiled /\ result.risk_summary # EmptyRiskSummary) =>
        \A i \in 1..Len(result.component_mapping) :
           /\ Cardinality(IdsListed(i)) = Len(result.component_mapping[i].threat_ids)
           /\ ThreatCounts(result.component_mapping[i].component)
                 = {Len(result.component_mapping[i].threat_ids)}

RECURSIVE SumOfCounts(_)
\* the sum of the counts of threat_distribution
SumOfCounts(distribution) ==
    IF distribution = <<>> THEN 0
    ELSE Head(distribution).count + SumOfCounts(Tail(distribution))

\* the threats of the compiled model whose criticality_level is level
WithLevel(level) ==
    {j \in 1..Len(result.threat_model) : result.threat_model[j].criticality_level = level}

\* C27: in every compiled model that contains threats the risk summary counts
\* agree with the threat list: the four risk_distribution counts sum to
\* total_threats, the threat_distribution counts sum to total_threats,
\* total_threats is the length of threat_model, and each threat is counted in
\* the band of its own criticality_level.
C27_SummaryCountsAgree ==
    (Compiled /\ result.threat_model # <<>>) =>
        /\ result.risk_summary.total_threats = Len(result.threat_model)
        /\ DOMAIN result.risk_summary.risk_distribution = {"critical", "high", "medium", "low"}
        /\ result.risk_summary.risk_distribution.critical = Cardinality(WithLevel("CRITICAL"))
        /\ result.risk_summary.risk_distribution.high = Cardinality(WithLevel("HIGH"))
        /\ result.risk_summary.risk_distribution.medium = Cardinality(WithLevel("MEDIUM"))
        /\ result.risk_summary.risk_distribution.low = Cardinality(WithLevel("LOW"))
        /\ result.risk_summary.risk_distribution.critical + result.risk_summary.risk_distribution.high
              + result.risk_summary.risk_distribution.medium + result.risk_summary.risk_distribution.low
              = result.risk_summary.total_threats
        /\ SumOfCounts(result.risk_summary.threat_distribution) = result.risk_summary.total_threats

\* the places in the graph's list of the relationships that qualify
Qualifying ==
    {i \in 1..Len(arch_analysis.relationships) : PathMax(arch_analysis.relationships[i]) >= 700}

\* the place of the k-th qualifying relationship
NthQualifying(k) ==
    CHOOSE i \in Qualifying : Cardinality({q \in Qualifying : q <= i}) = k

\* C28: critical_paths holds one finding per qualifying relationship, in the
\* order of the relationships in the graph (parallel relationships between
\* one pair each yield their own finding, and there are never more findings
\* than relationships), and the risk_level of every finding is HIGH or
\* CRITICAL, never MEDIUM or LOW.
C28_OneFindingPerRelationshipInOrder ==
    Compiled =>
        /\ Len(result.critical_paths) <= Len(arch_analysis.relationships)
        /\ Len(result.critical_paths) = Cardinality(Qualifying)
        /\ \A k \in 1..Len(result.critical_paths) :
              /\ result.critical_paths[k].path =
                    <<arch_analysis.relationships[NthQualifying(k)].source,
                      arch_analysis.relationships[NthQualifying(k)].target>>
              /\ result.critical_paths[k].risk_level \in {"HIGH", "CRITICAL"}
              /\ result.critical_paths[k].risk_level = "CRITICAL"
                    <=> PathMax(arch_analysis.relationships[NthQualifying(k)]) >= 800

\* under the star graph one threat of 7.02 on SearchDB: the two parallel
\* relationships from WebUI to SearchDB, third and fourth of the ten, give
\* one HIGH finding each and the other eight relationships give none
C28_Witness ==
    /\ Compiled
    /\ arch_analysis = StarGraph
    /\ Len(result.threat_model) = 1
    /\ result.threat_model[1].criticality_score = 702
    /\ Qualifying = {3, 4}
    /\ Len(result.critical_paths) = 2
    /\ result.critical_paths[1].path = <<"WebUI", "SearchDB">>
    /\ result.critical_paths[2].path = <<"WebUI", "SearchDB">>
    /\ result.critical_paths[1].risk_level = "HIGH"
    /\ result.critical_paths[2].risk_level = "HIGH"

\* what C29 compares of a compiled model: the threat ids with their
\* criticality scores, in order, and the critical paths
IdsScoresAndPaths(model) ==
    [threats |-> [j \in 1..Len(model.threat_model) |->
                    <<model.threat_model[j].threat_id, model.threat_model[j].criticality_score>>],
     critical_paths |-> model.critical_paths]

\* C29: an absent architecture graph (None) and an empty architecture graph
\* ({} or one with empty components and relationships lists) are equivalent
\* inputs: for the same agent_analyses compile_threat_model returns the same
\* threat ids, the same criticality scores, the same order and the same
\* critical_paths for both.
C29_AbsentGraphIsEmptyGraph ==
    (Compiled /\ arch_analysis \in {NoGraph, EmptyGraph}) =>
        /\ result = compile_threat_model(all_solutions, arch_analysis, hash_seed)
        /\ IdsScoresAndPaths(compile_threat_model(all_solutions, NoGraph, hash_seed))
              = IdsScoresAndPaths(compile_threat_model(all_solutions, EmptyGraph, hash_seed))

\* relationships to add: one between two components that may be connected
\* already, one back along a relationship of the hub, one from a component
\* to itself
AddedRelationships ==
    {Relationship("WebUI", "SearchDB", <<"export">>),
     Relationship("AuthService", "ApiGateway", <<"token", "check">>),
     Relationship("SearchDB", "SearchDB", <<"replication">>)}

\* the graph with the relationship rel added, last or first in its list
WithRelationship(graph, rel) ==
    {[graph EXCEPT !.relationships = Append(@, rel)],
     [graph EXCEPT !.relationships = <<rel>> \o @]}

\* the findings of a compiled model for the path from source to target
FindingsFor(model, source, target) ==
    {k \in 1..Len(model.critical_paths) : model.critical_paths[k].path = <<source, target>>}

\* the compiled model after is, threat by threat and finding by finding, no
\* lower than the compiled model before
NothingLowered(before, after) ==
    /\ Len(after.threat_model) = Len(before.threat_model)
    /\ \A j \in 1..Len(before.threat_model) :
          \E n \in 1..Len(after.threat_model) :
             /\ after.threat_model[n].threat_id = before.threat_model[j].threat_id
             /\ after.threat_model[n].criticality_score >= before.threat_model[j].criticality_score
    /\ \A k \in 1..Len(before.critical_paths) :
          Cardinality(FindingsFor(after, before.critical_paths[k].path[1],
                                         before.critical_paths[k].path[2]))
             >= Cardinality(FindingsFor(before, before.critical_paths[k].path[1],
                                                before.critical_paths[k].path[2]))

\* C30: adding a relationship to the architecture graph (all other inputs
\* fixed, base scores non-negative) never lowers the criticality_score of any
\* threat and never removes a critical-path finding that was reported for a
\* relationship the graph had already.
C30_AddedRelationshipLowersNothing ==
    (/\ Compiled
     /\ arch_analysis.kind = "dict"
     /\ \A j \in 1..Len(component_threats) : component_threats[j].base_score >= 0) =>
        \A rel \in AddedRelationships :
           \A graph \in WithRelationship(arch_analysis, rel) :
              NothingLowered(result, compile_threat_model(all_solutions, graph, hash_seed))

\* under the pair graph a threat on WebUI and the finding of its one
\* relationship: the relationship from a component to itself changes nothing,
\* the second relationship to SearchDB adds a finding and no neighbour
C30_Witness ==
    /\ Compiled
    /\ arch_analysis = PairGraph
    /\ Len(result.threat_model) >= 2
    /\ Len(result.critical_paths) = 1
    /\ \E j \in 1..Len(result.threat_model) :
          /\ result.threat_model[j].component_name = Str("WebUI")
          /\ result.threat_model[j].criticality_score >= 700
    /\ \E j \in 1..Len(result.threat_model) :
          /\ result.threat_model[j].component_name = Str("AuthService")
          /\ \E graph \in WithRelationship(arch_analysis,
                                           Relationship("AuthService", "ApiGateway", <<"token", "check">>)) :
                \E n \in 1..Len(result.threat_model) :
                   /\ compile_threat_model(all_solutions, graph, hash_seed).threat_model[n].threat_id
                         = result.threat_model[j].threat_id
                   /\ compile_threat_model(all_solutions, graph, hash_seed).threat_model[n].criticality_score
                         > result.threat_model[j].criticality_score

====
